---- MODULE Spec2Model ----
(***************************************************************************)
(* Physical page tracking and two-level page-table editing of kern/pmap.c  *)
(* (src/unnamed/part_001): page_init, page_alloc, page_free, page_decref,  *)
(* pgdir_walk, page_insert, page_lookup, page_remove, tlb_invalidate.      *)
(*                                                                         *)
(* Physical memory is an array of frames; a frame used as a page directory *)
(* or page table is an array of NPTENTRIES entries.  A virtual address is  *)
(* a virtual page number va with PDX(va) = va \div NPTENTRIES and          *)
(* PTX(va) = va % NPTENTRIES.  An entry is [pa, fl]: the frame number in   *)
(* its address bits and the set of its flag bits.                          *)
(***************************************************************************)
EXTENDS Integers, Sequences, FiniteSets, TLC

\* ----------------------------------------------------------------------
\* Sizes of the checked configuration
\* ----------------------------------------------------------------------
\* number of physical pages found by i386_detect_memory
NPAGE == 6
\* entries per page directory and per page table
NPTENTRIES == 5
\* how many references a holder of a frame takes on it
MaxRef == 2

\* pp_ref is a 16-bit unsigned field
RefMod == 65536

Frames == 0 .. (NPAGE - 1)
Index == 0 .. (NPTENTRIES - 1)

NULL == -1
\* &page_free_list.lh_first, as a value of le_prev
HEAD == -2
E_NO_MEM == 4

PTE_P == "P"
PTE_W == "W"
PTE_U == "U"
PTE_PS == "PS"

PDX(va) == va \div NPTENTRIES
PTX(va) == va % NPTENTRIES
\* offset of va inside its large page
JPGOFF(va) == va % NPTENTRIES

\* Layout of the page directory, top down: KERNBASE, VPT, UVPT.
PDX_KERNBASE == NPTENTRIES - 1
PDX_VPT == NPTENTRIES - 2
PDX_UVPT == NPTENTRIES - 3
KERNBASE == PDX_KERNBASE * NPTENTRIES
VPT == PDX_VPT * NPTENTRIES
UVPT == PDX_UVPT * NPTENTRIES
PGSIZE == 1
PTSIZE == NPTENTRIES

\* Physical layout seen by page_init: frame 0, base memory, the IO hole,
\* the kernel image and boot_alloc'ed memory, then free extended memory.
PPN_IOPHYSMEM == 2
PPN_EXTPHYSMEM == PPN_IOPHYSMEM + 1
PPN_after_kernel == PPN_EXTPHYSMEM + 1
\* the frame boot_alloc gave to the boot page directory
boot_pgdir == PPN_EXTPHYSMEM

ZeroEntry == [pa |-> 0, fl |-> {}]
ZeroPage == [i \in Index |-> ZeroEntry]
NullPte == [fr |-> NULL, ix |-> NULL]
NullLinks == [pp_ref |-> 0, le_next |-> NULL, le_prev |-> NULL]

\* Byte addresses, for boot_alloc: a machine word holds 0 .. WordMod - 1,
\* a page is PGSIZE_B bytes, the kernel's window on physical memory starts
\* at KERNBASE_B (the top quarter of the word) and the kernel image ends at
\* end.
\* A page directory and a page table have NPDENTRIES entries at this scale,
\* and the directory spans the whole word.
NPDENTRIES == 16
PGSIZE_B == 2
PTSIZE_B == NPDENTRIES * PGSIZE_B
JPGSIZE == PTSIZE_B
WordMod == NPDENTRIES * PTSIZE_B
KERNBASE_B == (NPDENTRIES - 2) * PTSIZE_B
\* inc/memlayout.h, top down: the virtual page table, the kernel stack just
\* below it, the kernel-only limit, the user-readable virtual page table,
\* the window on pages and the window on envs
VPT_B == KERNBASE_B - PTSIZE_B
KSTACKTOP == VPT_B
KSTKSIZE == 2 * PGSIZE_B
ULIM_B == KSTACKTOP - PTSIZE_B
UVPT_B == ULIM_B - PTSIZE_B
UPAGES == UVPT_B - PTSIZE_B
UENVS == UPAGES - PTSIZE_B
EXTPHYSMEM == PPN_EXTPHYSMEM * PGSIZE_B
\* the boot stack, in the kernel image
bootstack == KERNBASE_B + PGSIZE_B
\* NENV * sizeof(struct Env) bytes, and how many struct Page fill one byte
EnvArrayBytes == 3
PagesPerByte == 4
end == KERNBASE_B + PPN_EXTPHYSMEM * PGSIZE_B
E_FAULT == 6

VARIABLES
  pages,           \* pages[f] = [pp_ref, le_next, le_prev]  (struct Page)
  page_free_list,  \* lh_first of the free list, or NULL
  mem,             \* mem[f][i]: entry i of frame f read as a table
  panicked,        \* panic() was called
  last,            \* the last call: its arguments and what it returned
  boot_freemem,    \* boot_alloc's cursor, a kernel virtual byte address
  user_mem_check_addr,  \* first erroneous address of user_mem_check
  env_destroyed,   \* env_destroy(env) was called
  maxpa,           \* bytes of physical memory i386_detect_memory found
  vm,              \* i386_vm_init: where it is and what it has set
  once_ctl,        \* a parlib_once_t: [ran_once, is_running]
  pc,              \* pc[t]: where thread t is in parlib_run_once
  init_fn          \* how often init_fn was entered and has returned

bootvars == <<maxpa, vm>>
oncevars == <<once_ctl, pc, init_fn>>
vars == <<pages, page_free_list, mem, panicked, last,
          boot_freemem, user_mem_check_addr, env_destroyed,
          bootvars, oncevars>>

\* i386_vm_init is not running
NoVm == [at |-> "none"]

\* parlib_once_t and its initialiser
PARLIB_ONCE_INIT == [ran_once |-> FALSE, is_running |-> FALSE]
\* the threads that share one parlib_once_t
NThreads == 3
Threads == 1 .. NThreads
NoRuns == [calls |-> 0, done |-> 0]

\* The kernel state the functions below read and write.
KState == [pages |-> pages, page_free_list |-> page_free_list, mem |-> mem,
           panicked |-> panicked, invlpg |-> <<>>]

\* ----------------------------------------------------------------------
\* Free list (sys/queue.h LIST)
\* ----------------------------------------------------------------------
\* The chain lh_first, le_next, le_next, ... cut after n links.
RECURSIVE Chain(_, _, _)
Chain(s, f, n) ==
  IF f = NULL \/ n = 0 THEN <<>>
  ELSE <<f>> \o Chain(s, s.pages[f].le_next, n - 1)

FreeSeqOf(s) == Chain(s, s.page_free_list, NPAGE + 1)
FreeSetOf(s) == {FreeSeqOf(s)[i] : i \in 1 .. Len(FreeSeqOf(s))}

ListInsertHead(s, elm) ==
  LET first == s.page_free_list
      p1 == [s.pages EXCEPT ![elm].le_next = first]
      p2 == IF first # NULL THEN [p1 EXCEPT ![first].le_prev = elm] ELSE p1
      p3 == [p2 EXCEPT ![elm].le_prev = HEAD]
  IN [s EXCEPT !.pages = p3, !.page_free_list = elm]

ListRemove(s, elm) ==
  LET nxt == s.pages[elm].le_next
      prv == s.pages[elm].le_prev
      p1 == IF nxt # NULL THEN [s.pages EXCEPT ![nxt].le_prev = prv]
            ELSE s.pages
  IN IF prv = HEAD THEN [s EXCEPT !.pages = p1, !.page_free_list = nxt]
     ELSE IF prv = NULL THEN [s EXCEPT !.panicked = TRUE]
     ELSE [s EXCEPT !.pages = [p1 EXCEPT ![prv].le_next = nxt]]

\* ----------------------------------------------------------------------
\* boot_alloc
\* ----------------------------------------------------------------------
\* uint32_t arithmetic: sums are taken modulo WordMod
ROUNDDOWN(a, n) == a - (a % n)
ROUNDUP(a, n) == ROUNDDOWN((a + n - 1) % WordMod, n)
PADDR(kva) == (kva - KERNBASE_B) % WordMod

\* freemem is boot_freemem before the call, v the address returned
boot_alloc(freemem, n, align) ==
  LET Rounded(f1) ==
        IF PADDR((f1 + n) % WordMod) > maxpa
        THEN [boot_freemem |-> f1, panicked |-> TRUE, v |-> NULL]
        ELSE [boot_freemem |-> (f1 + n) % WordMod, panicked |-> FALSE,
              v |-> f1]
  IN Rounded(ROUNDUP(IF freemem = 0 THEN end ELSE freemem, align))

\* ----------------------------------------------------------------------
\* page_init
\* ----------------------------------------------------------------------
RECURSIVE InitLoop(_, _, _, _)
\* for (i = lo; i < hi; i++) { pages[i].pp_ref = ref; [insert at head] }
InitLoop(s, lo, hi, free) ==
  IF lo >= hi THEN s
  ELSE LET s1 == [s EXCEPT !.pages[lo].pp_ref = IF free THEN 0 ELSE 1]
           s2 == IF free THEN ListInsertHead(s1, lo) ELSE s1
       IN InitLoop(s2, lo + 1, hi, free)

page_init(s) ==
  LET s0 == [s EXCEPT !.page_free_list = NULL, !.pages[0].pp_ref = 1]
      s1 == InitLoop(s0, 1, PPN_IOPHYSMEM, TRUE)
      s2 == InitLoop(s1, PPN_IOPHYSMEM, PPN_EXTPHYSMEM, FALSE)
      s3 == InitLoop(s2, PPN_EXTPHYSMEM, PPN_after_kernel, FALSE)
  IN InitLoop(s3, PPN_after_kernel, NPAGE, TRUE)

\* ----------------------------------------------------------------------
\* page_initpp, page_alloc, page_free, page_decref
\* ----------------------------------------------------------------------
page_initpp(s, pp) == [s EXCEPT !.pages[pp] = NullLinks]

\* page_alloc that clears *pp_store when it fails
page_alloc_clobber(s, store) ==
  IF s.page_free_list = NULL
  THEN [s |-> s, ret |-> -E_NO_MEM, pp |-> NULL]
  ELSE LET pp == s.page_free_list
       IN [s |-> page_initpp(ListRemove(s, pp), pp), ret |-> 0, pp |-> pp]

\* page_alloc that takes the oldest frame of the list instead of the newest
page_alloc_tail(s, store) ==
  IF s.page_free_list = NULL
  THEN [s |-> s, ret |-> -E_NO_MEM, pp |-> store]
  ELSE LET pp == FreeSeqOf(s)[Len(FreeSeqOf(s))]
       IN [s |-> page_initpp(ListRemove(s, pp), pp), ret |-> 0, pp |-> pp]

\* store is the caller's *pp_store before the call
page_alloc(s, store) ==
  IF s.page_free_list = NULL
  THEN [s |-> s, ret |-> -E_NO_MEM, pp |-> store]
  ELSE LET pp == s.page_free_list
       IN [s |-> page_initpp(ListRemove(s, pp), pp), ret |-> 0, pp |-> pp]

\* page_free without the reference-count check
page_free_nocheck(s, pp) == ListInsertHead(s, pp)

\* page_free that panics only after it has put the frame on the list
page_free_late(s, pp) ==
  [ListInsertHead(s, pp) EXCEPT !.panicked = s.pages[pp].pp_ref # 0]

page_free(s, pp) ==
  IF s.pages[pp].pp_ref # 0
  THEN [s EXCEPT !.panicked = TRUE]
  ELSE ListInsertHead(s, pp)

\* page_decref that already frees the frame when one reference is left
page_decref_early(s, pp) ==
  LET r == (s.pages[pp].pp_ref - 1) % RefMod
      s1 == [s EXCEPT !.pages[pp].pp_ref = r]
  IN IF r <= 1 THEN ListInsertHead(s1, pp) ELSE s1

page_decref(s, pp) ==
  LET r == (s.pages[pp].pp_ref - 1) % RefMod
      s1 == [s EXCEPT !.pages[pp].pp_ref = r]
  IN IF r = 0 THEN page_free(s1, pp) ELSE s1

\* ----------------------------------------------------------------------
\* pgdir_walk
\* ----------------------------------------------------------------------
Present(e) == PTE_P \in e.fl
Deref(s, pte) == s.mem[pte.fr][pte.ix]
Store(s, pte, e) == [s EXCEPT !.mem[pte.fr][pte.ix] = e]

\* pgdir_walk that installs the new page table without the memset
pgdir_walk_nozero(s, pgdir, va, create) ==
  LET the_pde == [fr |-> pgdir, ix |-> PDX(va)]
      pde == Deref(s, the_pde)
      Alloced(a) ==
        IF a.ret # 0
        THEN [s |-> s, pte |-> NullPte]
        ELSE LET new_table == a.pp
                 s1 == [a.s EXCEPT !.pages[new_table].pp_ref = 1]
                 s3 == Store(s1, the_pde,
                             [pa |-> new_table,
                              fl |-> {PTE_P, PTE_W, PTE_U}])
             IN [s |-> s3, pte |-> [fr |-> new_table, ix |-> PTX(va)]]
  IN IF Present(pde)
     THEN IF PTE_PS \in pde.fl
          THEN [s |-> s, pte |-> the_pde]
          ELSE [s |-> s, pte |-> [fr |-> pde.pa, ix |-> PTX(va)]]
     ELSE IF create = 0
     THEN [s |-> s, pte |-> NullPte]
     ELSE IF create = 2
     THEN IF JPGOFF(va) # 0
          THEN [s |-> [s EXCEPT !.panicked = TRUE], pte |-> NullPte]
          ELSE [s |-> Store(s, the_pde, [pa |-> 0, fl |-> {PTE_PS, PTE_P}]),
                pte |-> the_pde]
     ELSE Alloced(page_alloc(s, NULL))

\* pgdir_walk that leaves the count of the new page table at 0
pgdir_walk_noref(s, pgdir, va, create) ==
  LET the_pde == [fr |-> pgdir, ix |-> PDX(va)]
      pde == Deref(s, the_pde)
      Alloced(a) ==
        IF a.ret # 0
        THEN [s |-> s, pte |-> NullPte]
        ELSE LET new_table == a.pp
                 s2 == [a.s EXCEPT !.mem[new_table] = ZeroPage]
                 s3 == Store(s2, the_pde,
                             [pa |-> new_table,
                              fl |-> {PTE_P, PTE_W, PTE_U}])
             IN [s |-> s3, pte |-> [fr |-> new_table, ix |-> PTX(va)]]
  IN IF Present(pde)
     THEN IF PTE_PS \in pde.fl
          THEN [s |-> s, pte |-> the_pde]
          ELSE [s |-> s, pte |-> [fr |-> pde.pa, ix |-> PTX(va)]]
     ELSE IF create = 0
     THEN [s |-> s, pte |-> NullPte]
     ELSE IF create = 2
     THEN IF JPGOFF(va) # 0
          THEN [s |-> [s EXCEPT !.panicked = TRUE], pte |-> NullPte]
          ELSE [s |-> Store(s, the_pde, [pa |-> 0, fl |-> {PTE_PS, PTE_P}]),
                pte |-> the_pde]
     ELSE Alloced(page_alloc(s, NULL))

\* pgdir_walk that returns the page table of va, not the entry of va in it
pgdir_walk_table(s, pgdir, va, create) ==
  LET the_pde == [fr |-> pgdir, ix |-> PDX(va)]
      pde == Deref(s, the_pde)
      Alloced(a) ==
        IF a.ret # 0
        THEN [s |-> s, pte |-> NullPte]
        ELSE LET new_table == a.pp
                 s1 == [a.s EXCEPT !.pages[new_table].pp_ref = 1]
                 s2 == [s1 EXCEPT !.mem[new_table] = ZeroPage]
                 s3 == Store(s2, the_pde,
                             [pa |-> new_table,
                              fl |-> {PTE_P, PTE_W, PTE_U}])
             IN [s |-> s3, pte |-> [fr |-> new_table, ix |-> PTX(va)]]
  IN IF Present(pde)
     THEN IF PTE_PS \in pde.fl
          THEN [s |-> s, pte |-> the_pde]
          ELSE [s |-> s, pte |-> [fr |-> pde.pa, ix |-> 0]]
     ELSE IF create = 0
     THEN [s |-> s, pte |-> NullPte]
     ELSE IF create = 2
     THEN IF JPGOFF(va) # 0
          THEN [s |-> [s EXCEPT !.panicked = TRUE], pte |-> NullPte]
          ELSE [s |-> Store(s, the_pde, [pa |-> 0, fl |-> {PTE_PS, PTE_P}]),
                pte |-> the_pde]
     ELSE Alloced(page_alloc(s, NULL))

pgdir_walk(s, pgdir, va, create) ==
  LET the_pde == [fr |-> pgdir, ix |-> PDX(va)]
      pde == Deref(s, the_pde)
      \* a is what page_alloc(&new_table) gave
      Alloced(a) ==
        IF a.ret # 0
        THEN [s |-> s, pte |-> NullPte]
        ELSE LET new_table == a.pp
                 s1 == [a.s EXCEPT !.pages[new_table].pp_ref = 1]
                 s2 == [s1 EXCEPT !.mem[new_table] = ZeroPage]
                 s3 == Store(s2, the_pde,
                             [pa |-> new_table,
                              fl |-> {PTE_P, PTE_W, PTE_U}])
             IN [s |-> s3, pte |-> [fr |-> new_table, ix |-> PTX(va)]]
  IN IF Present(pde)
     THEN IF PTE_PS \in pde.fl
          THEN [s |-> s, pte |-> the_pde]
          ELSE [s |-> s, pte |-> [fr |-> pde.pa, ix |-> PTX(va)]]
     ELSE IF create = 0
     THEN [s |-> s, pte |-> NullPte]
     ELSE IF create = 2
     THEN IF JPGOFF(va) # 0
          THEN [s |-> [s EXCEPT !.panicked = TRUE], pte |-> NullPte]
          ELSE [s |-> Store(s, the_pde, [pa |-> 0, fl |-> {PTE_PS, PTE_P}]),
                pte |-> the_pde]
     ELSE Alloced(page_alloc(s, NULL))

\* ----------------------------------------------------------------------
\* tlb_invalidate, page_lookup, page_remove, page_insert
\* ----------------------------------------------------------------------
tlb_invalidate(s, pgdir, va) == [s EXCEPT !.invlpg = Append(@, va)]

\* page_lookup that returns, for a large page, the frame va falls in
page_lookup_inner(s, pgdir, va, store) ==
  LET Walked(pte) ==
        IF pte = NullPte \/ ~Present(Deref(s, pte))
        THEN [page |-> NULL, pte |-> store]
        ELSE IF pte.fr = pgdir /\ PTE_PS \in Deref(s, pte).fl
        THEN [page |-> (Deref(s, pte).pa + JPGOFF(va)) % NPAGE, pte |-> pte]
        ELSE [page |-> Deref(s, pte).pa, pte |-> pte]
  IN Walked(pgdir_walk(s, pgdir, va, 0).pte)

\* store is the caller's *pte_store before the call
page_lookup(s, pgdir, va, store) ==
  LET Walked(pte) ==
        IF pte = NullPte \/ ~Present(Deref(s, pte))
        THEN [page |-> NULL, pte |-> store]
        ELSE [page |-> Deref(s, pte).pa, pte |-> pte]
  IN Walked(pgdir_walk(s, pgdir, va, 0).pte)

\* page_remove that forgets page_decref
page_remove_nodecref(s, pgdir, va) ==
  LET Looked(l) ==
        IF l.page = NULL
        THEN [s |-> s, steps |-> <<>>]
        ELSE LET s1 == Store(s, l.pte, ZeroEntry)
                 s2 == tlb_invalidate(s1, pgdir, va)
             IN [s |-> s2, steps |-> <<s1, s2>>]
  IN Looked(page_lookup(s, pgdir, va, NullPte))

\* page_remove that invalidates before it knows whether va is mapped
page_remove_inval(s, pgdir, va) ==
  LET s0 == tlb_invalidate(s, pgdir, va)
      Looked(l) ==
        IF l.page = NULL
        THEN [s |-> s0, steps |-> <<s0>>]
        ELSE LET s1 == Store(s0, l.pte, ZeroEntry)
                 Dropped(s3) == [s |-> s3, steps |-> <<s0, s1, s3>>]
             IN Dropped(page_decref(s1, l.page))
  IN Looked(page_lookup(s, pgdir, va, NullPte))

\* page_remove that drops the reference before it invalidates the TLB
page_remove_decref_first(s, pgdir, va) ==
  LET Looked(l) ==
        IF l.page = NULL
        THEN [s |-> s, steps |-> <<>>]
        ELSE LET s1 == Store(s, l.pte, ZeroEntry)
                 Dropped(s2) ==
                   LET s3 == tlb_invalidate(s2, pgdir, va)
                   IN [s |-> s3, steps |-> <<s1, s2, s3>>]
             IN Dropped(page_decref(s1, l.page))
  IN Looked(page_lookup(s, pgdir, va, NullPte))

\* page_remove that gives back a page table once its last entry is cleared
page_remove_gc(s, pgdir, va) ==
  LET Looked(l) ==
        IF l.page = NULL
        THEN [s |-> s, steps |-> <<>>]
        ELSE LET s1 == Store(s, l.pte, ZeroEntry)
                 s2 == tlb_invalidate(s1, pgdir, va)
                 Dropped(s3) ==
                   IF l.pte.fr # pgdir /\ s3.mem[l.pte.fr] = ZeroPage
                   THEN LET s4 == Store(s3, [fr |-> pgdir, ix |-> PDX(va)],
                                        ZeroEntry)
                            Freed(s5) == [s |-> s5,
                                          steps |-> <<s1, s2, s3, s4, s5>>]
                        IN Freed(page_decref(s4, l.pte.fr))
                   ELSE [s |-> s3, steps |-> <<s1, s2, s3>>]
             IN Dropped(page_decref(s2, l.page))
  IN Looked(page_lookup(s, pgdir, va, NullPte))

\* steps: the state after each statement of the call that writes
page_remove(s, pgdir, va) ==
  LET Looked(l) ==
        IF l.page = NULL
        THEN [s |-> s, steps |-> <<>>]
        ELSE LET s1 == Store(s, l.pte, ZeroEntry)
                 s2 == tlb_invalidate(s1, pgdir, va)
                 Dropped(s3) == [s |-> s3, steps |-> <<s1, s2, s3>>]
             IN Dropped(page_decref(s2, l.page))
  IN Looked(page_lookup(s, pgdir, va, NullPte))

\* page_insert that does not count the new mapping
page_insert_noref(s, pgdir, pp, va, perm) ==
  LET Walked(w) ==
        IF w.pte = NullPte
        THEN [s |-> w.s, ret |-> -E_NO_MEM, steps |-> <<>>]
        ELSE LET Removed(r) ==
                   LET s2 == Store(r.s, w.pte,
                                   [pa |-> pp, fl |-> {PTE_P} \cup perm])
                   IN [s |-> s2, ret |-> 0,
                       steps |-> <<w.s>> \o r.steps \o <<s2>>]
             IN Removed(IF Present(Deref(w.s, w.pte))
                        THEN page_remove(w.s, pgdir, va)
                        ELSE [s |-> w.s, steps |-> <<>>])
  IN Walked(pgdir_walk(s, pgdir, va, 1))

\* page_insert that overwrites an existing mapping without page_remove
page_insert_noremove(s, pgdir, pp, va, perm) ==
  LET Walked(w) ==
        IF w.pte = NullPte
        THEN [s |-> w.s, ret |-> -E_NO_MEM, steps |-> <<>>]
        ELSE LET s1 == [w.s EXCEPT !.pages[pp].pp_ref = (@ + 1) % RefMod]
                 s2 == Store(s1, w.pte,
                             [pa |-> pp, fl |-> {PTE_P} \cup perm])
             IN [s |-> s2, ret |-> 0, steps |-> <<w.s, s1, s2>>]
  IN Walked(pgdir_walk(s, pgdir, va, 1))

\* page_insert that counts the new mapping only after page_remove
page_insert_lateref(s, pgdir, pp, va, perm) ==
  LET Walked(w) ==
        IF w.pte = NullPte
        THEN [s |-> w.s, ret |-> -E_NO_MEM, steps |-> <<>>]
        ELSE LET Removed(r) ==
                   LET s1 == [r.s EXCEPT
                                !.pages[pp].pp_ref = (@ + 1) % RefMod]
                       s2 == Store(s1, w.pte,
                                   [pa |-> pp, fl |-> {PTE_P} \cup perm])
                   IN [s |-> s2, ret |-> 0,
                       steps |-> <<w.s>> \o r.steps \o <<s1, s2>>]
             IN Removed(IF Present(Deref(w.s, w.pte))
                        THEN page_remove(w.s, pgdir, va)
                        ELSE [s |-> w.s, steps |-> <<>>])
  IN Walked(pgdir_walk(s, pgdir, va, 1))

\* page_insert that counts the new mapping before it has a page table
page_insert_earlyref(s, pgdir, pp, va, perm) ==
  LET s0 == [s EXCEPT !.pages[pp].pp_ref = (@ + 1) % RefMod]
      Walked(w) ==
        IF w.pte = NullPte
        THEN [s |-> w.s, ret |-> -E_NO_MEM, steps |-> <<s0>>]
        ELSE LET Removed(r) ==
                   LET s2 == Store(r.s, w.pte,
                                   [pa |-> pp, fl |-> {PTE_P} \cup perm])
                   IN [s |-> s2, ret |-> 0,
                       steps |-> <<s0, w.s>> \o r.steps \o <<s2>>]
             IN Removed(IF Present(Deref(w.s, w.pte))
                        THEN page_remove(w.s, pgdir, va)
                        ELSE [s |-> w.s, steps |-> <<>>])
  IN Walked(pgdir_walk(s0, pgdir, va, 1))

\* w is what pgdir_walk(pgdir, va, 1) gave, r what page_remove left
page_insert(s, pgdir, pp, va, perm) ==
  LET Walked(w) ==
        IF w.pte = NullPte
        THEN [s |-> w.s, ret |-> -E_NO_MEM, steps |-> <<>>]
        ELSE LET s1 == [w.s EXCEPT !.pages[pp].pp_ref = (@ + 1) % RefMod]
                 Removed(r) ==
                   LET s2 == Store(r.s, w.pte,
                                   [pa |-> pp, fl |-> {PTE_P} \cup perm])
                   IN [s |-> s2, ret |-> 0,
                       steps |-> <<w.s, s1>> \o r.steps \o <<s2>>]
             IN Removed(IF Present(Deref(s1, w.pte))
                        THEN page_remove(s1, pgdir, va)
                        ELSE [s |-> s1, steps |-> <<>>])
  IN Walked(pgdir_walk(s, pgdir, va, 1))

\* ----------------------------------------------------------------------
\* i386_detect_memory, boot_pgdir_walk, boot_map_segment
\* ----------------------------------------------------------------------
PDIndex == 0 .. (NPDENTRIES - 1)
\* the frames the kernel's window at KERNBASE can show
BootFrames == 0 .. ((WordMod - KERNBASE_B) \div PGSIZE_B - 1)
ZeroTable == [i \in PDIndex |-> ZeroEntry]

PDX_B(la) == la \div PTSIZE_B
PTX_B(la) == (la \div PGSIZE_B) % NPDENTRIES
PGOFF(la) == la % PGSIZE_B
JPGOFF_B(la) == la % JPGSIZE
\* the frame number in the address bits of PTE_ADDR(pa)
PPN(pa) == pa \div PGSIZE_B
KADDR(pa) == (pa + KERNBASE_B) % WordMod

\* what i386_detect_memory sets from the two NVRAM sizes, given in bytes
i386_detect_memory(nv_base, nv_ext) ==
  LET basemem == ROUNDDOWN(nv_base, PGSIZE_B)
      extmem == ROUNDDOWN(nv_ext, PGSIZE_B)
      top == IF extmem # 0 THEN EXTPHYSMEM + extmem ELSE basemem
  IN [basemem |-> basemem, extmem |-> extmem, maxpa |-> top,
      npage |-> top \div PGSIZE_B]

\* boot_pgdir_walk that gives a new page table a kernel-only directory entry
boot_pgdir_walk_kernel(b, pgdir, la, create) ==
  LET the_pde == [fr |-> pgdir, ix |-> PDX_B(la)]
      pde == b.mem[pgdir][PDX_B(la)]
      Alloced(a) ==
        IF a.panicked
        THEN [b |-> [b EXCEPT !.panicked = TRUE], pte |-> NullPte]
        ELSE LET new_table == PPN(PADDR(a.v))
                 b1 == [b EXCEPT !.boot_freemem = a.boot_freemem]
                 b2 == [b1 EXCEPT !.mem[new_table] = ZeroTable]
                 b3 == [b2 EXCEPT !.mem[pgdir][PDX_B(la)] =
                                    [pa |-> new_table,
                                     fl |-> {PTE_P, PTE_W}]]
             IN [b |-> b3, pte |-> [fr |-> new_table, ix |-> PTX_B(la)]]
  IN IF Present(pde)
     THEN IF PTE_PS \in pde.fl
          THEN [b |-> b, pte |-> the_pde]
          ELSE [b |-> b, pte |-> [fr |-> pde.pa, ix |-> PTX_B(la)]]
     ELSE IF create = 0
     THEN [b |-> b, pte |-> NullPte]
     ELSE IF create = 2
     THEN IF JPGOFF_B(la) # 0
          THEN [b |-> [b EXCEPT !.panicked = TRUE], pte |-> NullPte]
          ELSE [b |-> [b EXCEPT !.mem[pgdir][PDX_B(la)] =
                                  [pa |-> 0, fl |-> {PTE_PS, PTE_P}]],
                pte |-> the_pde]
     ELSE Alloced(boot_alloc(b.boot_freemem, PGSIZE_B, PGSIZE_B))

\* b is the boot-time state: memory read as tables, boot_alloc's cursor,
\* whether panic() was called and the warnings given.  pgdir and the
\* tables are named by their frame numbers.
boot_pgdir_walk(b, pgdir, la, create) ==
  LET the_pde == [fr |-> pgdir, ix |-> PDX_B(la)]
      pde == b.mem[pgdir][PDX_B(la)]
      \* a is what boot_alloc(PGSIZE, PGSIZE) gave
      Alloced(a) ==
        IF a.panicked
        THEN [b |-> [b EXCEPT !.panicked = TRUE], pte |-> NullPte]
        ELSE LET new_table == PPN(PADDR(a.v))
                 b1 == [b EXCEPT !.boot_freemem = a.boot_freemem]
                 b2 == [b1 EXCEPT !.mem[new_table] = ZeroTable]
                 b3 == [b2 EXCEPT !.mem[pgdir][PDX_B(la)] =
                                    [pa |-> new_table,
                                     fl |-> {PTE_P, PTE_W, PTE_U}]]
             IN [b |-> b3, pte |-> [fr |-> new_table, ix |-> PTX_B(la)]]
  IN IF Present(pde)
     THEN IF PTE_PS \in pde.fl
          THEN [b |-> b, pte |-> the_pde]
          ELSE [b |-> b, pte |-> [fr |-> pde.pa, ix |-> PTX_B(la)]]
     ELSE IF create = 0
     THEN [b |-> b, pte |-> NullPte]
     ELSE IF create = 2
     THEN IF JPGOFF_B(la) # 0
          THEN [b |-> [b EXCEPT !.panicked = TRUE], pte |-> NullPte]
          ELSE [b |-> [b EXCEPT !.mem[pgdir][PDX_B(la)] =
                                  [pa |-> 0, fl |-> {PTE_PS, PTE_P}]],
                pte |-> the_pde]
     ELSE Alloced(boot_alloc(b.boot_freemem, PGSIZE_B, PGSIZE_B))

\* *pte = e; a store to a frame beyond the installed memory is lost
StoreB(b, pte, e) ==
  IF pte.fr \in DOMAIN b.mem THEN [b EXCEPT !.mem[pte.fr][pte.ix] = e] ELSE b

RECURSIVE MapLoop(_, _, _, _, _, _, _, _)
\* for (i; i < size; i += stride, la += stride, pa += stride) {
\*   pte = boot_pgdir_walk(pgdir, la, create); *pte = PTE_ADDR(pa)|PTE_P|perm }
MapLoop(b, pgdir, i, la, size, pa, perm, create) ==
  LET stride == IF create = 2 THEN JPGSIZE ELSE PGSIZE_B
      Walked(w) ==
        IF w.b.panicked THEN w.b
        ELSE MapLoop(StoreB(w.b, w.pte,
                            [pa |-> PPN(pa), fl |-> {PTE_P} \cup perm]),
                     pgdir, (i + stride) % WordMod, (la + stride) % WordMod,
                     size, (pa + stride) % WordMod, perm, create)
  IN IF i >= size THEN b
     ELSE Walked(boot_pgdir_walk(b, pgdir, la, create))

\* boot_map_segment that takes the large-page frame of pa for every request
boot_map_segment_rounded(b, pgdir, la, size, pa, perm) ==
  LET size1 == IF PGOFF(la) # 0 THEN (size + PGOFF(la)) % WordMod ELSE size
      w1 == IF PGOFF(la) # 0 THEN {"la not page aligned"} ELSE {}
      w2 == IF (pa + size1) % WordMod > maxpa THEN {"beyond maxpa"} ELSE {}
      b1 == [b EXCEPT !.warned = @ \cup w1 \cup w2]
  IN IF PTE_PS \in perm
     THEN IF JPGOFF_B(la) # 0 \/ JPGOFF_B(pa) # 0
          THEN [b1 EXCEPT !.panicked = TRUE]
          ELSE MapLoop(b1, pgdir, 0, la, size1, pa, perm, 2)
     ELSE MapLoop(b1, pgdir, 0, la, size1, ROUNDDOWN(pa, JPGSIZE), perm, 1)

boot_map_segment(b, pgdir, la, size, pa, perm) ==
  LET size1 == IF PGOFF(la) # 0 THEN (size + PGOFF(la)) % WordMod ELSE size
      w1 == IF PGOFF(la) # 0 THEN {"la not page aligned"} ELSE {}
      w2 == IF (pa + size1) % WordMod > maxpa THEN {"beyond maxpa"} ELSE {}
      b1 == [b EXCEPT !.warned = @ \cup w1 \cup w2]
  IN IF PTE_PS \in perm
     THEN IF JPGOFF_B(la) # 0 \/ JPGOFF_B(pa) # 0
          THEN [b1 EXCEPT !.panicked = TRUE]
          ELSE MapLoop(b1, pgdir, 0, la, size1, pa, perm, 2)
     ELSE MapLoop(b1, pgdir, 0, la, size1, pa, perm, 1)

\* ----------------------------------------------------------------------
\* user_mem_check, user_mem_assert
\* ----------------------------------------------------------------------
\* what user_mem_check returns; it writes nothing
user_mem_check(env, va, len, perm) == 0

\* TRUE when user_mem_assert calls env_destroy(env)
user_mem_assert(env, va, len, perm) ==
  user_mem_check(env, va, len, perm \cup {PTE_U}) < 0

\* check_va2pa: the frame the hardware walk finds for va, NULL for ~0
check_va2pa(s, pgdir, va) ==
  LET pde == s.mem[pgdir][PDX(va)]
  IN IF ~Present(pde) THEN NULL
     ELSE IF PTE_PS \in pde.fl THEN pde.pa
     ELSE IF ~Present(s.mem[pde.pa][PTX(va)]) THEN NULL
     ELSE s.mem[pde.pa][PTX(va)].pa

\* ----------------------------------------------------------------------
\* State after i386_vm_init and page_init
\* ----------------------------------------------------------------------
\* The boot page directory: the two self-referential slots and, with PSE,
\* physical memory mapped at KERNBASE by a large-page entry.
BootPgdir ==
  [i \in Index |->
     IF i = PDX_VPT THEN [pa |-> boot_pgdir, fl |-> {PTE_W, PTE_P}]
     ELSE IF i = PDX_UVPT THEN [pa |-> boot_pgdir, fl |-> {PTE_U, PTE_P}]
     ELSE IF i = PDX_KERNBASE THEN [pa |-> 0, fl |-> {PTE_W, PTE_PS, PTE_P}]
     ELSE ZeroEntry]

BootState ==
  page_init([pages |-> [f \in Frames |-> NullLinks],
             page_free_list |-> NULL,
             mem |-> [f \in Frames |->
                        IF f = boot_pgdir THEN BootPgdir ELSE ZeroPage],
             panicked |-> FALSE,
             invlpg |-> <<>>])

\* ----------------------------------------------------------------------
\* Arguments the callers pass
\* ----------------------------------------------------------------------
\* page_insert arguments <<va, perm>>: addresses 0 and PGSIZE share a page
\* table, PTSIZE needs a second one; PGSIZE is mapped with either perm
InsertArgs == {<<0, {}>>, <<PGSIZE, {}>>, <<PGSIZE, {PTE_U}>>, <<PTSIZE, {}>>}
\* addresses below UVPT, in directory slots that start out empty
UserVAs == {0, PGSIZE, PTSIZE}
\* the directory's own slot seen through VPT, directory slot 0 seen through
\* VPT, and an address inside the large page at KERNBASE
WindowVAs == {VPT + PDX_VPT * PGSIZE, VPT, KERNBASE + PGSIZE}
AllVAs == UserVAs \cup WindowVAs

\* op and arguments of a call, what it returned (ret, page, pte), the
\* addresses it passed to invlpg, and what it found on entry: the frame
\* mapped at va (was), that frame's reference count (wasref) and the
\* reference count of pp (ref)
NoCall == [op |-> "none", pp |-> NULL, va |-> NULL, len |-> 0, align |-> 0,
           perm |-> {}, create |-> 0,
           ret |-> 0, page |-> NULL, pte |-> NullPte, invlpg |-> <<>>,
           was |-> NULL, ref |-> 0, wasref |-> 0]

Init ==
  /\ pages = BootState.pages
  /\ page_free_list = BootState.page_free_list
  /\ mem = BootState.mem
  /\ panicked = FALSE
  /\ last = NoCall
  /\ boot_freemem = KERNBASE_B + PPN_after_kernel * PGSIZE_B
  /\ user_mem_check_addr = 0
  /\ env_destroyed = FALSE
  /\ maxpa = NPAGE * PGSIZE_B
  /\ vm = NoVm
  /\ once_ctl = PARLIB_ONCE_INIT
  /\ pc = [t \in Threads |-> "out"]
  /\ init_fn = NoRuns

\* the call leaves the kernel in state s
Becomes(s) ==
  /\ pages' = s.pages
  /\ page_free_list' = s.page_free_list
  /\ mem' = s.mem
  /\ panicked' = s.panicked
  /\ UNCHANGED <<boot_freemem, user_mem_check_addr, env_destroyed>>
  /\ UNCHANGED <<bootvars, oncevars>>

\* the frame mapped at va
WasAt(va) == page_lookup(KState, boot_pgdir, va, NullPte).page

RefAt(va) == IF WasAt(va) = NULL THEN 0 ELSE pages[WasAt(va)].pp_ref

FreeSet == FreeSetOf(KState)
FreeSeq == FreeSeqOf(KState)

\* ----------------------------------------------------------------------
\* The calls
\* ----------------------------------------------------------------------
PageAlloc ==
  /\ ~panicked
  /\ \E store \in {NULL, 0}:
       LET r == page_alloc(KState, store)
       IN /\ Becomes(r.s)
          /\ last' = [NoCall EXCEPT !.op = "page_alloc", !.pp = store,
                        !.ret = r.ret, !.page = r.pp]

PageFreeOf(pps) ==
  /\ ~panicked
  /\ \E pp \in pps:
       LET s == page_free(KState, pp)
       IN /\ Becomes(s)
          /\ last' = [NoCall EXCEPT !.op = "page_free", !.pp = pp,
                        !.ref = pages[pp].pp_ref]

PageDecrefOf(pps) ==
  /\ ~panicked
  /\ \E pp \in pps:
       LET s == page_decref(KState, pp)
       IN /\ Becomes(s)
          /\ last' = [NoCall EXCEPT !.op = "page_decref", !.pp = pp,
                        !.ref = pages[pp].pp_ref]

\* The holder of a frame takes a reference on it: pp->pp_ref++, as
\* page_insert does for a mapping.
PageIncrefOf(pps) ==
  /\ ~panicked
  /\ \E pp \in pps:
       /\ pages[pp].pp_ref < MaxRef
       /\ pages' = [pages EXCEPT ![pp].pp_ref = (@ + 1) % RefMod]
       /\ UNCHANGED <<page_free_list, mem, panicked>>
       /\ UNCHANGED <<boot_freemem, user_mem_check_addr, env_destroyed>>
       /\ UNCHANGED <<bootvars, oncevars>>
       /\ last' = [NoCall EXCEPT !.op = "incref", !.pp = pp,
                     !.ref = pages[pp].pp_ref]

PgdirWalkOf(vas, creates) ==
  /\ ~panicked
  /\ \E va \in vas, create \in creates:
       LET r == pgdir_walk(KState, boot_pgdir, va, create)
       IN /\ Becomes(r.s)
          /\ last' = [NoCall EXCEPT !.op = "pgdir_walk", !.va = va,
                        !.create = create, !.pte = r.pte]

PageInsertOf(pps, args) ==
  /\ ~panicked
  /\ \E pp \in pps, a \in args:
       LET va == a[1]
           perm == a[2]
           r == page_insert(KState, boot_pgdir, pp, va, perm)
       IN /\ Becomes(r.s)
          /\ last' = [NoCall EXCEPT !.op = "page_insert", !.pp = pp,
                        !.va = va, !.perm = perm, !.ret = r.ret,
                        !.invlpg = r.s.invlpg, !.ref = pages[pp].pp_ref,
                        !.was = WasAt(va), !.wasref = RefAt(va)]

PageLookupOf(vas) ==
  /\ ~panicked
  /\ \E va \in vas:
       LET r == page_lookup(KState, boot_pgdir, va, NullPte)
       IN /\ UNCHANGED <<pages, page_free_list, mem, panicked>>
          /\ UNCHANGED <<boot_freemem, user_mem_check_addr, env_destroyed>>
          /\ UNCHANGED <<bootvars, oncevars>>
          /\ last' = [NoCall EXCEPT !.op = "page_lookup", !.va = va,
                        !.page = r.page, !.pte = r.pte]

PageRemoveOf(vas) ==
  /\ ~panicked
  /\ \E va \in vas:
       LET r == page_remove(KState, boot_pgdir, va)
       IN /\ Becomes(r.s)
          /\ last' = [NoCall EXCEPT !.op = "page_remove", !.va = va,
                        !.invlpg = r.s.invlpg, !.was = WasAt(va),
                        !.wasref = RefAt(va)]

\* Frames page_init keeps from the free list for good.
Reserved == {0} \cup (PPN_IOPHYSMEM .. (PPN_after_kernel - 1))
\* f is the page table of a present directory entry
IsTable(f) ==
  \E i \in Index : /\ Present(mem[boot_pgdir][i])
                   /\ PTE_PS \notin mem[boot_pgdir][i].fl
                   /\ mem[boot_pgdir][i].pa = f
\* Frames a caller got from page_alloc and still holds or has mapped.
CallerFrames == {f \in Frames \ (Reserved \cup FreeSet) : ~IsTable(f)}

\* Callers that keep to the documented use: page_free of a frame they hold
\* whose count is 0, page_insert of a frame they got from page_alloc, at
\* addresses in the user part of the address space, without large pages.
PageFree == PageFreeOf({f \in CallerFrames : pages[f].pp_ref = 0})
PgdirWalk == PgdirWalkOf(UserVAs, {0, 1})
PageInsert == PageInsertOf(CallerFrames, InsertArgs)
PageLookup == PageLookupOf(UserVAs)
PageRemove == PageRemoveOf(UserVAs)

Next ==
  \/ PageAlloc
  \/ PageFree
  \/ PgdirWalk
  \/ PageInsert
  \/ PageLookup
  \/ PageRemove

Spec == Init /\ [][Next]_vars

\* The frame database alone.  A caller holds the frames it got from
\* page_alloc, takes and drops references on them, and calls page_free on
\* them (a panic if the frame is still referenced).
Held == Frames \ (Reserved \cup FreeSet)
PageFreeHeld == PageFreeOf(Held)
PageIncref == PageIncrefOf(Held)
PageDecref == PageDecrefOf({f \in Held : pages[f].pp_ref > 0})

NextFrames ==
  \/ PageAlloc
  \/ PageFreeHeld
  \/ PageIncref
  \/ PageDecref

SpecFrames == Init /\ [][NextFrames]_vars

\* The frame database with page_free called on any frame whose count is 0,
\* a frame that is already on the free list included.
PageFreeZero == PageFreeOf({f \in Frames : pages[f].pp_ref = 0})

NextDouble ==
  \/ PageAlloc
  \/ PageFreeZero
  \/ PageIncref
  \/ PageDecref

SpecDouble == Init /\ [][NextDouble]_vars

\* A caller that maps and unmaps the frames it got from page_alloc and also
\* drops references with page_decref, whatever the count is: 0 right after
\* page_alloc, or that of a frame that is still mapped.  A count that has
\* left 0 .. MaxRef is not moved further.
Counted == {f \in CallerFrames : pages[f].pp_ref <= MaxRef}
PageDecrefAny == PageDecrefOf(Counted)
PageInsertCounted == PageInsertOf(Counted, {<<0, {}>>, <<PGSIZE, {}>>})
PageRemoveCounted ==
  PageRemoveOf({va \in {0, PGSIZE} : WasAt(va) # NULL => WasAt(va) \in Counted})

NextDecref ==
  \/ PageAlloc
  \/ PageInsertCounted
  \/ PageRemoveCounted
  \/ PageDecrefAny

SpecDecref == Init /\ [][NextDecref]_vars

\* The walker alone, with every kind of request.  A caller fills a frame it
\* holds with bogus data (memset(page2kva(pp1), 0xFFFFFFFF, PGSIZE)), frees
\* frames it holds, and walks with create 0, 1 and 2 at addresses that are
\* and are not aligned to a large page, in absent slots, in the large page
\* at KERNBASE and in the self-map slot at VPT.
BogusEntry == [pa |-> NPAGE - 1, fl |-> {PTE_P, PTE_W, PTE_U, PTE_PS}]
BogusPage == [i \in Index |-> BogusEntry]

MemsetOf(pps) ==
  /\ ~panicked
  /\ \E pp \in pps:
       /\ mem' = [mem EXCEPT ![pp] = BogusPage]
       /\ UNCHANGED <<pages, page_free_list, panicked>>
       /\ UNCHANGED <<boot_freemem, user_mem_check_addr, env_destroyed>>
       /\ UNCHANGED <<bootvars, oncevars>>
       /\ last' = [NoCall EXCEPT !.op = "memset", !.pp = pp]

WalkVAs == {0, PGSIZE, PTSIZE, VPT, KERNBASE, KERNBASE + PGSIZE}
Memset == MemsetOf({f \in CallerFrames : mem[f] # BogusPage})
PgdirWalkAny == PgdirWalkOf(WalkVAs, {0, 1, 2})

NextWalk ==
  \/ PageAlloc
  \/ PageFree
  \/ Memset
  \/ PgdirWalkAny

SpecWalk == Init /\ [][NextWalk]_vars

\* The validator beside a caller that maps frames.  ULIM is the bottom of
\* the kernel-only part of the address space; the range is counted in pages.
ULIM == VPT
CheckVAs == {0, PGSIZE, ULIM, KERNBASE}
CheckLens == {1, 2}
CheckPerms == {{}, {PTE_W}}

UserMemCheck ==
  /\ ~panicked
  /\ \E va \in CheckVAs, len \in CheckLens, perm \in CheckPerms:
       /\ last' = [NoCall EXCEPT !.op = "user_mem_check", !.va = va,
                     !.len = len, !.perm = perm,
                     !.ret = user_mem_check(0, va, len, perm)]
       /\ UNCHANGED <<pages, page_free_list, mem, panicked>>
       /\ UNCHANGED <<boot_freemem, user_mem_check_addr, env_destroyed>>
       /\ UNCHANGED <<bootvars, oncevars>>

UserMemAssert ==
  /\ ~panicked
  /\ ~env_destroyed
  /\ \E va \in CheckVAs, len \in CheckLens, perm \in CheckPerms:
       /\ env_destroyed' = user_mem_assert(0, va, len, perm)
       /\ last' = [NoCall EXCEPT !.op = "user_mem_assert", !.va = va,
                     !.len = len, !.perm = perm]
       /\ UNCHANGED <<pages, page_free_list, mem, panicked>>
       /\ UNCHANGED <<boot_freemem, user_mem_check_addr>>
       /\ UNCHANGED <<bootvars, oncevars>>

NextUser ==
  \/ PageAlloc
  \/ PageInsert
  \/ UserMemCheck
  \/ UserMemAssert

SpecUser == Init /\ [][NextUser]_vars

\* Callers that pass any address: an address below UVPT, the address at
\* which VPT shows the directory's own slot, and the address of the large
\* page at KERNBASE.  A run is followed until the directory has lost one
\* of its two self-map slots or page_alloc has handed out a frame that
\* page_init reserved; what the kernel does after that is not followed.
WildVAs == {0, VPT + PDX_VPT * PGSIZE, KERNBASE}
WildArgs == {<<va, {}>> : va \in WildVAs}
SelfMapped(i) ==
  Present(mem[boot_pgdir][i]) /\ mem[boot_pgdir][i].pa = boot_pgdir
Undamaged ==
  /\ SelfMapped(PDX_VPT)
  /\ SelfMapped(PDX_UVPT)
  /\ ~(last.op = "page_alloc" /\ last.ret = 0 /\ last.page \in Reserved)
PageAllocWild == Undamaged /\ PageAlloc
PgdirWalkWild == Undamaged /\ PgdirWalkOf(WildVAs, {0, 1})
PageInsertWild == Undamaged /\ PageInsertOf(CallerFrames, WildArgs)
PageRemoveWild == Undamaged /\ PageRemoveOf(WildVAs)

NextWild ==
  \/ PageAllocWild
  \/ PgdirWalkWild
  \/ PageInsertWild
  \/ PageRemoveWild

SpecWild == Init /\ [][NextWild]_vars

\* The same callers, with page_alloc followed past the loss of a self-map
\* slot: until it has handed out the frame of the directory itself or
\* another frame that page_init reserved.
ReservedHandedOut ==
  last.op = "page_alloc" /\ last.ret = 0 /\ last.page \in Reserved
PageAllocReuse == ~ReservedHandedOut /\ PageAlloc

NextReuse ==
  \/ PageAllocReuse
  \/ PgdirWalkWild
  \/ PageInsertWild
  \/ PageRemoveWild

SpecReuse == Init /\ [][NextReuse]_vars

\* Large pages.  A caller makes a large-page entry with pgdir_walk(pgdir,
\* va, 2) in an empty directory slot and removes mappings at addresses at
\* the start of and inside a large page, the one at KERNBASE included.  A
\* mapping is removed only while its frame is counted, which keeps pp_ref
\* from wrapping.
LargeVAs == {PTSIZE, PTSIZE + PGSIZE, KERNBASE, KERNBASE + PGSIZE}
PgdirWalkLarge == PgdirWalkOf(LargeVAs, {0, 2})
PageRemoveLarge ==
  PageRemoveOf({va \in LargeVAs \cup {0} :
                  WasAt(va) # NULL => pages[WasAt(va)].pp_ref > 0})

PageInsertLow == PageInsertOf(CallerFrames, {<<0, {}>>})

NextLarge ==
  \/ PageAlloc
  \/ PageInsertLow
  \/ PgdirWalkLarge
  \/ PageRemoveLarge

SpecLarge == Init /\ [][NextLarge]_vars

\* The bootstrap allocator, before i386_vm_init has built anything: sizes
\* that fit, sizes that do not, and sizes near the top of the word.
BootSizes == {0, 1, PGSIZE_B, PGSIZE_B + 1, 2 * PGSIZE_B, WordMod - PGSIZE_B}
BootAligns == {1, PGSIZE_B, 2 * PGSIZE_B}

InitBoot ==
  /\ pages = [f \in Frames |-> NullLinks]
  /\ page_free_list = NULL
  /\ mem = [f \in Frames |-> ZeroPage]
  /\ panicked = FALSE
  /\ last = NoCall
  /\ boot_freemem = 0
  /\ user_mem_check_addr = 0
  /\ env_destroyed = FALSE
  /\ maxpa = NPAGE * PGSIZE_B
  /\ vm = NoVm
  /\ once_ctl = PARLIB_ONCE_INIT
  /\ pc = [t \in Threads |-> "out"]
  /\ init_fn = NoRuns

BootAlloc ==
  /\ ~panicked
  /\ \E n \in BootSizes, align \in BootAligns:
       LET r == boot_alloc(boot_freemem, n, align)
       IN /\ boot_freemem' = r.boot_freemem
          /\ panicked' = r.panicked
          /\ last' = [NoCall EXCEPT !.op = "boot_alloc", !.len = n,
                        !.align = align, !.ret = r.v]
          /\ UNCHANGED <<pages, page_free_list, mem>>
          /\ UNCHANGED <<user_mem_check_addr, env_destroyed>>
          /\ UNCHANGED <<bootvars, oncevars>>

NextBoot == BootAlloc

SpecBoot == InitBoot /\ [][NextBoot]_vars

\* ----------------------------------------------------------------------
\* Boot-time mapping
\* ----------------------------------------------------------------------
\* memory boot_alloc hands out is uninitialized
JunkEntry == [pa |-> 1, fl |-> {PTE_P, PTE_W, PTE_U, PTE_PS}]
JunkTable == [i \in PDIndex |-> JunkEntry]

\* the boot-time state the functions read and write
BState == [mem |-> mem, boot_freemem |-> boot_freemem, panicked |-> panicked,
           warned |-> {}]

BootBecomes(b) ==
  /\ mem' = b.mem
  /\ boot_freemem' = b.boot_freemem
  /\ panicked' = b.panicked
  /\ UNCHANGED <<pages, page_free_list, user_mem_check_addr, env_destroyed,
                 maxpa, oncevars>>

\* boot_map_segment called with any arguments on the directory that
\* i386_vm_init has just allocated and cleared, all of the memory the
\* kernel's window can show being installed: ranges inside one page table
\* and across two, addresses that are not page aligned, large pages at
\* aligned and unaligned addresses.
MapLas == {0, 1, PGSIZE_B, JPGSIZE - PGSIZE_B, JPGSIZE}
MapSizes == {PGSIZE_B, 2 * PGSIZE_B, JPGSIZE + PGSIZE_B}
MapPas == {0, PGSIZE_B, JPGSIZE}
MapPerms == {{PTE_W}, {PTE_W, PTE_PS}}
\* how many calls of boot_map_segment a run makes
MaxCalls == 2
\* the frame of the first page boot_alloc gives out
FirstFrame == PPN(PADDR(ROUNDUP(end, PGSIZE_B)))

InitMap ==
  /\ pages = [f \in Frames |-> NullLinks]
  /\ page_free_list = NULL
  /\ mem = [f \in BootFrames |->
              IF f = FirstFrame THEN ZeroTable ELSE JunkTable]
  /\ panicked = FALSE
  /\ last = NoCall
  /\ boot_freemem = ROUNDUP(end, PGSIZE_B) + PGSIZE_B
  /\ user_mem_check_addr = 0
  /\ env_destroyed = FALSE
  /\ maxpa = WordMod - KERNBASE_B
  /\ vm = [at |-> "map", pgdir |-> FirstFrame, warned |-> {}, calls |-> 0]
  /\ once_ctl = PARLIB_ONCE_INIT
  /\ pc = [t \in Threads |-> "out"]
  /\ init_fn = NoRuns

BootMapSegment ==
  /\ ~panicked
  /\ vm.calls < MaxCalls
  /\ \E la \in MapLas, size \in MapSizes, pa \in MapPas, perm \in MapPerms :
       LET b == boot_map_segment(BState, vm.pgdir, la, size, pa, perm)
       IN /\ BootBecomes(b)
          /\ vm' = [vm EXCEPT !.warned = b.warned, !.calls = @ + 1]
          /\ last' = [NoCall EXCEPT !.op = "boot_map_segment", !.va = la,
                        !.len = size, !.pp = pa, !.perm = perm]

NextMap == BootMapSegment

SpecMap == InitMap /\ [][NextMap]_vars

\* ----------------------------------------------------------------------
\* check_va2pa, get_vaperms, check_boot_pgdir at the byte scale
\* ----------------------------------------------------------------------
\* ~0
AllOnes == WordMod - 1
\* the offsets a loop "for (i = 0; i < n; i += stride)" goes through
Steps(n, stride) == {i \in 0 .. (n - 1) : i % stride = 0}

\* the physical address of the page containing va, ~0 when there is none
check_va2pa_B(b, pgdir, va) ==
  LET pde == b.mem[pgdir][PDX_B(va)]
  IN IF ~Present(pde) THEN AllOnes
     ELSE IF PTE_PS \in pde.fl THEN pde.pa * PGSIZE_B
     ELSE IF ~Present(b.mem[pde.pa][PTX_B(va)]) THEN AllOnes
     ELSE b.mem[pde.pa][PTX_B(va)].pa * PGSIZE_B

\* the flag bits as numbers
FlagBit(f) ==
  CASE f = PTE_P -> 1 [] f = PTE_W -> 2 [] f = PTE_U -> 4 [] f = PTE_PS -> 128
Bits(fl) ==
  (IF PTE_P \in fl THEN 1 ELSE 0) + (IF PTE_W \in fl THEN 2 ELSE 0)
    + (IF PTE_U \in fl THEN 4 ELSE 0) + (IF PTE_PS \in fl THEN 128 ELSE 0)

\* PGOFF(*pde & *pte) + PTE_PS & (*pde | *pte): the sum is taken first,
\* then masked.  pgdir_walk(pgdir, va, 0) reads the directory as
\* boot_pgdir_walk(pgdir, va, 0) does.
get_vaperms(b, pgdir, va) ==
  LET pde == b.mem[pgdir][PDX_B(va)]
      w == boot_pgdir_walk(b, pgdir, va, 0).pte
      Summed(pte, n) ==
        {f \in pde.fl \cup pte.fl : (n \div FlagBit(f)) % 2 = 1}
      Found(pte) ==
        IF ~Present(pte) THEN {}
        ELSE Summed(pte, Bits(pde.fl \cap pte.fl) + FlagBit(PTE_PS))
  IN IF w = NullPte THEN {} ELSE Found(b.mem[w.fr][w.ix])

\* npage * sizeof(struct Page)
PageArrayBytes(n) == (n + PagesPerByte - 1) \div PagesPerByte
\* VPT >> 10: the offset of the directory entry of va in the page table
\* that the directory is when it is read through a self-map
SelfOff(va) == va \div NPDENTRIES

\* TRUE when every assert of check_boot_pgdir passes; kpages and kenvs are
\* the kernel addresses of the two arrays
check_boot_pgdir(b, pgdir, pse, n_page, kpages, kenvs) ==
  LET Pa(va) == check_va2pa_B(b, pgdir, va % WordMod)
      Perms(va) == get_vaperms(b, pgdir, va % WordMod)
      named == {PDX_B(VPT_B), PDX_B(UVPT_B), PDX_B(KSTACKTOP - 1),
                PDX_B(UPAGES), PDX_B(UENVS)}
      top == (KERNBASE_B + maxpa - PGSIZE_B) % WordMod
  IN /\ \A i \in Steps(ROUNDUP(PageArrayBytes(n_page), PGSIZE_B), PGSIZE_B) :
          Pa(UPAGES + i) = (PADDR(kpages) + i) % WordMod
     /\ \A i \in Steps(ROUNDUP(EnvArrayBytes, PGSIZE_B), PGSIZE_B) :
          Pa(UENVS + i) = (PADDR(kenvs) + i) % WordMod
     /\ \A i \in Steps(maxpa, IF pse THEN JPGSIZE ELSE PGSIZE_B) :
          Pa(KERNBASE_B + i) = i
     /\ \A i \in Steps(KSTKSIZE, PGSIZE_B) :
          Pa(KSTACKTOP - KSTKSIZE + i) = (PADDR(bootstack) + i) % WordMod
     /\ \A i \in PDIndex :
          IF i \in named THEN b.mem[pgdir][i] # ZeroEntry
          ELSE IF /\ i >= PDX_B(KERNBASE_B)
                  /\ i <= PDX_B(KADDR((maxpa - 1) % WordMod))
          THEN b.mem[pgdir][i] # ZeroEntry
          ELSE b.mem[pgdir][i] = ZeroEntry
     /\ \A i \in {UENVS + k : k \in Steps(ULIM_B - UENVS, PGSIZE_B)} :
          (PTE_P \in Perms(i) /\ i # UVPT_B + SelfOff(VPT_B))
            => IF PTE_PS \in Perms(i)
               THEN PTE_U \notin Perms(i) /\ PTE_W \notin Perms(i)
               ELSE PTE_U \in Perms(i) /\ PTE_W \notin Perms(i)
     /\ \A i \in {ULIM_B + k : k \in Steps(top + 1 - ULIM_B, PGSIZE_B)} :
          (PTE_P \in Perms(i) /\ i # VPT_B + SelfOff(UVPT_B))
            => PTE_U \notin Perms(i) /\ PTE_W \in Perms(i)
     /\ PTE_U \notin Perms(UVPT_B + SelfOff(VPT_B))
     /\ PTE_W \notin Perms(UVPT_B + SelfOff(VPT_B))
     /\ PTE_U \notin Perms(VPT_B + SelfOff(UVPT_B))
     /\ PTE_W \notin Perms(VPT_B + SelfOff(UVPT_B))

\* ----------------------------------------------------------------------
\* i386_detect_memory and i386_vm_init, statement by statement
\* ----------------------------------------------------------------------
\* the sizes the NVRAM can report, in bytes: no extended memory, too little
\* for the boot allocations, one directory slot's worth and more
NvBase == {2, 4}
NvExt == {0, 10, 16, 20, 26, 30, 40, 50}

\* memset(v, 0, n) on page-aligned v: the frames read as tables afterwards
Zeroed(m, v, n) ==
  [f \in DOMAIN m |->
     IF f \in {PPN(PADDR(v)) + k : k \in 0 .. (PPN(n) - 1)}
     THEN ZeroTable ELSE m[f]]

VmState == [BState EXCEPT !.warned = vm.warned]

VmBecomes(b, at) ==
  /\ BootBecomes(b)
  /\ last' = [NoCall EXCEPT !.op = "i386_vm_init"]
  /\ vm' = [vm EXCEPT !.warned = b.warned,
                      !.at = IF b.panicked THEN vm.at ELSE at]

InitVm ==
  /\ pages = [f \in Frames |-> NullLinks]
  /\ page_free_list = NULL
  /\ mem = [f \in BootFrames |-> JunkTable]
  /\ panicked = FALSE
  /\ last = NoCall
  /\ boot_freemem = 0
  /\ user_mem_check_addr = 0
  /\ env_destroyed = FALSE
  /\ maxpa = 0
  /\ vm = [at |-> "detect", pse |-> FALSE, npage |-> 0, pgdir |-> NULL,
           pages |-> 0, envs |-> 0, warned |-> {}, touched |-> {}]
  /\ once_ctl = PARLIB_ONCE_INIT
  /\ pc = [t \in Threads |-> "out"]
  /\ init_fn = NoRuns

\* i386_detect_memory, and the cpuid test for PSE that opens i386_vm_init
DetectMemory ==
  /\ vm.at = "detect"
  /\ \E pse \in BOOLEAN, nv_base \in NvBase, nv_ext \in NvExt :
       LET d == i386_detect_memory(nv_base, nv_ext)
       IN /\ maxpa' = d.maxpa
          /\ vm' = [vm EXCEPT !.at = "pgdir", !.pse = pse, !.npage = d.npage]
  /\ last' = [NoCall EXCEPT !.op = "i386_detect_memory"]
  /\ UNCHANGED <<pages, page_free_list, mem, panicked, boot_freemem,
                 user_mem_check_addr, env_destroyed, oncevars>>

\* pgdir = boot_alloc(PGSIZE, PGSIZE); memset(pgdir, 0, PGSIZE);
VmAllocPgdir ==
  /\ vm.at = "pgdir" /\ ~panicked
  /\ LET a == boot_alloc(boot_freemem, PGSIZE_B, PGSIZE_B)
     IN /\ mem' = IF a.panicked THEN mem ELSE Zeroed(mem, a.v, PGSIZE_B)
        /\ boot_freemem' = a.boot_freemem
        /\ panicked' = a.panicked
        /\ vm' = IF a.panicked THEN vm
                 ELSE [vm EXCEPT !.at = "selfmap", !.pgdir = PPN(PADDR(a.v))]
  /\ last' = [NoCall EXCEPT !.op = "i386_vm_init"]
  /\ UNCHANGED <<pages, page_free_list, user_mem_check_addr, env_destroyed,
                 maxpa, oncevars>>

\* pgdir[PDX(VPT)] = PADDR(pgdir)|PTE_W|PTE_P;
\* pgdir[PDX(UVPT)] = PADDR(pgdir)|PTE_U|PTE_P;
VmSelfMap ==
  /\ vm.at = "selfmap" /\ ~panicked
  /\ VmBecomes([VmState EXCEPT
                  !.mem[vm.pgdir][PDX_B(VPT_B)] =
                     [pa |-> vm.pgdir, fl |-> {PTE_W, PTE_P}],
                  !.mem[vm.pgdir][PDX_B(UVPT_B)] =
                     [pa |-> vm.pgdir, fl |-> {PTE_U, PTE_P}]],
               "kstack")

VmMapStack ==
  /\ vm.at = "kstack" /\ ~panicked
  /\ VmBecomes(boot_map_segment(VmState, vm.pgdir, KSTACKTOP - KSTKSIZE,
                                KSTKSIZE, PADDR(bootstack), {PTE_W}),
               "kernbase")

VmMapKernbase ==
  /\ vm.at = "kernbase" /\ ~panicked
  /\ VmBecomes(boot_map_segment(VmState, vm.pgdir, KERNBASE_B, maxpa, 0,
                                IF vm.pse THEN {PTE_W, PTE_PS} ELSE {PTE_W}),
               "pages")

\* v = boot_alloc(size, PGSIZE); memset(v, 0, size); the size is cut to
\* PTSIZE with a warning; boot_map_segment(pgdir, la, size, PADDR(v), PTE_U)
AllocAndMap(b, pgdir, size, la, what) ==
  LET Alloced(a) ==
        IF a.panicked THEN [b EXCEPT !.panicked = TRUE]
        ELSE boot_map_segment(
               [b EXCEPT !.boot_freemem = a.boot_freemem,
                         !.mem = Zeroed(b.mem, a.v, size),
                         !.warned = IF size > PTSIZE_B THEN @ \cup {what}
                                    ELSE @],
               pgdir, la, IF size > PTSIZE_B THEN PTSIZE_B ELSE size,
               PADDR(a.v), {PTE_U})
  IN Alloced(boot_alloc(b.boot_freemem, size, PGSIZE_B))

VmMapPages ==
  /\ vm.at = "pages" /\ ~panicked
  /\ LET size == ROUNDUP(PageArrayBytes(vm.npage), PGSIZE_B)
         b == AllocAndMap(VmState, vm.pgdir, size, UPAGES,
                          "page_array_size bigger than PTSIZE")
     IN /\ BootBecomes(b)
        /\ vm' = [vm EXCEPT !.warned = b.warned,
                            !.at = IF b.panicked THEN @ ELSE "envs",
                            !.pages = ROUNDUP(boot_freemem, PGSIZE_B)]
  /\ last' = [NoCall EXCEPT !.op = "i386_vm_init"]

VmMapEnvs ==
  /\ vm.at = "envs" /\ ~panicked
  /\ LET size == ROUNDUP(EnvArrayBytes, PGSIZE_B)
         b == AllocAndMap(VmState, vm.pgdir, size, UENVS,
                          "env_array_size bigger than PTSIZE")
     IN /\ BootBecomes(b)
        /\ vm' = [vm EXCEPT !.warned = b.warned,
                            !.at = IF b.panicked THEN @ ELSE "check",
                            !.envs = ROUNDUP(boot_freemem, PGSIZE_B)]
  /\ last' = [NoCall EXCEPT !.op = "i386_vm_init"]

\* check_boot_pgdir(pse): a failed assert panics
VmCheck ==
  /\ vm.at = "check" /\ ~panicked
  /\ VmBecomes([VmState EXCEPT !.panicked =
                  ~check_boot_pgdir(VmState, vm.pgdir, vm.pse, vm.npage,
                                    vm.pages, vm.envs)],
               "low")

\* pgdir[0] = pgdir[PDX(KERNBASE)]; paging is turned on
VmMapLow ==
  /\ vm.at = "low" /\ ~panicked
  /\ VmBecomes([VmState EXCEPT !.mem[vm.pgdir][0] =
                                  mem[vm.pgdir][PDX_B(KERNBASE_B)]],
               "unlow")

\* pgdir[0] = 0;
VmUnmapLow ==
  /\ vm.at = "unlow" /\ ~panicked
  /\ VmBecomes([VmState EXCEPT !.mem[vm.pgdir][0] = ZeroEntry], "done")

\* the indices i for which page_init writes pages[i], n_page being npage
\* and freemem boot_freemem when it is called; the last loop writes one
\* index too many
page_init_inclusive(n_page, freemem) ==
  LET after == PPN(PADDR(ROUNDUP(freemem, PGSIZE_B)))
  IN {0} \cup (1 .. (PPN_IOPHYSMEM - 1))
         \cup (PPN_IOPHYSMEM .. (PPN(EXTPHYSMEM) - 1))
         \cup (PPN(EXTPHYSMEM) .. (after - 1))
         \cup (after .. n_page)

\* the indices i for which page_init writes pages[i]: pages[0], then the
\* four loops
page_init_indices(n_page, freemem) ==
  LET after == PPN(PADDR(ROUNDUP(freemem, PGSIZE_B)))
  IN {0} \cup (1 .. (PPN_IOPHYSMEM - 1))
         \cup (PPN_IOPHYSMEM .. (PPN(EXTPHYSMEM) - 1))
         \cup (PPN(EXTPHYSMEM) .. (after - 1))
         \cup (after .. (n_page - 1))

\* page_init, called once i386_vm_init has returned
VmPageInit ==
  /\ vm.at = "done" /\ ~panicked
  /\ vm' = [vm EXCEPT !.at = "inited",
                      !.touched = page_init_indices(vm.npage, boot_freemem)]
  /\ last' = [NoCall EXCEPT !.op = "page_init"]
  /\ UNCHANGED <<pages, page_free_list, mem, panicked, boot_freemem,
                 user_mem_check_addr, env_destroyed, maxpa, oncevars>>

NextVm ==
  \/ DetectMemory
  \/ VmAllocPgdir
  \/ VmSelfMap
  \/ VmMapStack
  \/ VmMapKernbase
  \/ VmMapPages
  \/ VmMapEnvs
  \/ VmCheck
  \/ VmMapLow
  \/ VmUnmapLow
  \/ VmPageInit

SpecVm == InitVm /\ [][NextVm]_vars

\* ----------------------------------------------------------------------
\* parlib_run_once (src/unnamed/part_000)
\* ----------------------------------------------------------------------
\* __sync_fetch_and_or that loses its store
sync_fetch_and_or_lost(x, v) == [ret |-> x, mem |-> x]

\* __sync_fetch_and_or(&x, v): what it returns and what it leaves in x
sync_fetch_and_or(x, v) == [ret |-> x, mem |-> x \/ v]

\* parlib_run_once that sets ran_once before it calls init_fn
parlib_run_once_early(ctl, runs, at) ==
  LET To(nxt) == [ctl |-> ctl, runs |-> runs, at |-> nxt]
      Raced(r) == [ctl |-> [ctl EXCEPT !.is_running = r.mem], runs |-> runs,
                   at |-> IF ~r.ret THEN "init_fn" ELSE "spin"]
  IN CASE at = "test" -> To(IF ~ctl.ran_once THEN "race" ELSE "ret")
       [] at = "race" -> Raced(sync_fetch_and_or(ctl.is_running, TRUE))
       [] at = "init_fn" -> [ctl |-> [ctl EXCEPT !.ran_once = TRUE],
                             runs |-> [runs EXCEPT !.calls = @ + 1],
                             at |-> "in_init"]
       [] at = "in_init" -> [ctl |-> ctl,
                             runs |-> [runs EXCEPT !.done = @ + 1],
                             at |-> "wmb"]
       [] at = "wmb" -> To("set")
       [] at = "set" -> To("ret")
       [] at = "spin" -> To(IF ~ctl.ran_once THEN "spin" ELSE "ret")

\* parlib_run_once whose winner returns without the store to ran_once
parlib_run_once_noset(ctl, runs, at) ==
  LET To(nxt) == [ctl |-> ctl, runs |-> runs, at |-> nxt]
      Raced(r) == [ctl |-> [ctl EXCEPT !.is_running = r.mem], runs |-> runs,
                   at |-> IF ~r.ret THEN "init_fn" ELSE "spin"]
  IN CASE at = "test" -> To(IF ~ctl.ran_once THEN "race" ELSE "ret")
       [] at = "race" -> Raced(sync_fetch_and_or(ctl.is_running, TRUE))
       [] at = "init_fn" -> [ctl |-> ctl,
                             runs |-> [runs EXCEPT !.calls = @ + 1],
                             at |-> "in_init"]
       [] at = "in_init" -> [ctl |-> ctl,
                             runs |-> [runs EXCEPT !.done = @ + 1],
                             at |-> "wmb"]
       [] at = "wmb" -> To("set")
       [] at = "set" -> To("ret")
       [] at = "spin" -> To(IF ~ctl.ran_once THEN "spin" ELSE "ret")

\* One statement of parlib_run_once(once_ctl, init_fn, arg), run by a thread
\* that is at statement at: the test of ran_once, the fetch-and-or on
\* is_running, the call of init_fn and its return, wmb(), the store to
\* ran_once, one turn of the spin loop.  ctl is *once_ctl, runs counts the
\* calls of init_fn; the result names the statement the thread is at next,
\* "ret" when it has returned.
parlib_run_once(ctl, runs, at) ==
  LET To(nxt) == [ctl |-> ctl, runs |-> runs, at |-> nxt]
      Raced(r) == [ctl |-> [ctl EXCEPT !.is_running = r.mem], runs |-> runs,
                   at |-> IF ~r.ret THEN "init_fn" ELSE "spin"]
  IN CASE at = "test" -> To(IF ~ctl.ran_once THEN "race" ELSE "ret")
       [] at = "race" -> Raced(sync_fetch_and_or(ctl.is_running, TRUE))
       [] at = "init_fn" -> [ctl |-> ctl,
                             runs |-> [runs EXCEPT !.calls = @ + 1],
                             at |-> "in_init"]
       [] at = "in_init" -> [ctl |-> ctl,
                             runs |-> [runs EXCEPT !.done = @ + 1],
                             at |-> "wmb"]
       [] at = "wmb" -> To("set")
       [] at = "set" -> [ctl |-> [ctl EXCEPT !.ran_once = TRUE],
                         runs |-> runs, at |-> "ret"]
       [] at = "spin" -> To(IF ~ctl.ran_once THEN "spin" ELSE "ret")

\* Threads that call parlib_run_once on the one parlib_once_t, each as often
\* as it likes, their statements interleaved in any order.
OnceOnly ==
  UNCHANGED <<pages, page_free_list, mem, panicked, last, boot_freemem,
              user_mem_check_addr, env_destroyed, bootvars>>

Call ==
  /\ \E t \in Threads :
       /\ pc[t] \in {"out", "ret"}
       /\ pc' = [pc EXCEPT ![t] = "test"]
  /\ UNCHANGED <<once_ctl, init_fn>>
  /\ OnceOnly

RunOnceAt(at) ==
  /\ \E t \in Threads :
       /\ pc[t] = at
       /\ LET r == parlib_run_once(once_ctl, init_fn, at)
          IN /\ once_ctl' = r.ctl
             /\ init_fn' = r.runs
             /\ pc' = [pc EXCEPT ![t] = r.at]
  /\ OnceOnly

TestRanOnce == RunOnceAt("test")
FetchAndOr == RunOnceAt("race")
CallInitFn == RunOnceAt("init_fn")
InitFnReturns == RunOnceAt("in_init")
Wmb == RunOnceAt("wmb")
SetRanOnce == RunOnceAt("set")
Spin == RunOnceAt("spin")

NextOnce ==
  \/ Call
  \/ TestRanOnce
  \/ FetchAndOr
  \/ CallInitFn
  \/ InitFnReturns
  \/ Wmb
  \/ SetRanOnce
  \/ Spin

SpecOnce == Init /\ [][NextOnce]_vars

\* parlib_set_ran_once(once_ctl), called by a thread that is not inside
\* parlib_run_once
parlib_set_ran_once(ctl) == [ctl EXCEPT !.ran_once = TRUE]

SetRanOnceDirectly ==
  /\ \E t \in Threads : pc[t] \in {"out", "ret"}
  /\ ~once_ctl.ran_once
  /\ once_ctl' = parlib_set_ran_once(once_ctl)
  /\ UNCHANGED <<pc, init_fn>>
  /\ OnceOnly

\* the next statement of thread t inside parlib_run_once
Statement(t) ==
  /\ pc[t] \notin {"out", "ret"}
  /\ LET r == parlib_run_once(once_ctl, init_fn, pc[t])
     IN /\ once_ctl' = r.ctl
        /\ init_fn' = r.runs
        /\ pc' = [pc EXCEPT ![t] = r.at]
  /\ OnceOnly

Statements == \E t \in Threads : Statement(t)

NextOnceFair ==
  \/ Call
  \/ SetRanOnceDirectly
  \/ Statements

\* Fair scheduling: a thread that is inside parlib_run_once runs its next
\* statement sooner or later; init_fn returns, being one of the statements.
SpecOnceFair ==
  /\ Init
  /\ [][NextOnceFair]_vars
  /\ \A t \in Threads : WF_vars(Statement(t))

\* ----------------------------------------------------------------------
\* Properties
\* ----------------------------------------------------------------------
RefZero == {f \in Frames : pages[f].pp_ref = 0}
KernelUnchanged == UNCHANGED <<pages, page_free_list, mem, panicked>>

\* C1 as claimed: the frames on page_free_list are exactly the frames whose
\* pp_ref is 0.
C1_FreeListIsRefZero == FreeSet = RefZero

\* C1, amended: every frame on page_free_list has pp_ref 0, and a frame with
\* pp_ref 0 is off the list only from the moment page_alloc returns it;
\* when page_free or page_decref brings a count to 0 the frame is on the
\* list at once.
C1_Step ==
  /\ FreeSet \subseteq RefZero
  /\ FreeSet' \subseteq RefZero'
  /\ \A f \in Frames :
       (pages'[f].pp_ref = 0 /\ f \notin FreeSet')
         => \/ pages[f].pp_ref = 0 /\ f \notin FreeSet
            \/ last'.op = "page_alloc" /\ last'.ret = 0 /\ last'.page = f

C1_FreeListRefZero == [][C1_Step]_vars

\* page_decref has just freed a frame while another frame, returned by
\* page_alloc, has count 0 and is off the list
C1_Witness ==
  /\ last.op = "page_decref"
  /\ last.pp \in FreeSet
  /\ \E f \in RefZero : f \notin FreeSet

\* C8: page_alloc on an empty free list returns -E_NO_MEM, does not panic
\* and changes neither *pp_store, nor any struct Page, nor the free list.
C8_AllocEmpty ==
  (last'.op = "page_alloc" /\ page_free_list = NULL)
    => /\ last'.ret = -E_NO_MEM
       /\ last'.page = last'.pp
       /\ KernelUnchanged

C8_AllocEmptyNoMutation == [][C8_AllocEmpty]_vars

\* page_alloc has failed with a caller whose *pp_store held a pointer
C8_Witness ==
  /\ last.op = "page_alloc"
  /\ last.ret = -E_NO_MEM
  /\ last.pp = 0
  /\ page_free_list = NULL

\* C9: the free list is a stack.  page_free and a page_decref that reaches 0
\* push the frame at the head, page_alloc pops the head and fails exactly
\* when the list is empty; so after a failed page_alloc, freeing one frame
\* makes one page_alloc succeed with that frame and the next one fail.
C9_Push ==
  (last'.op \in {"page_free", "page_decref"} /\ FreeSeq' # FreeSeq)
    => FreeSeq' = <<last'.pp>> \o FreeSeq

C9_Pop ==
  last'.op = "page_alloc"
    => IF FreeSeq = <<>>
       THEN last'.ret = -E_NO_MEM /\ FreeSeq' = <<>>
       ELSE last'.ret = 0 /\ last'.page = Head(FreeSeq)
            /\ FreeSeq' = Tail(FreeSeq)

C9_FreeListLifo == [][C9_Push /\ C9_Pop]_vars

\* page_alloc has just returned the newest of several free frames
C9_Witness ==
  /\ last.op = "page_alloc"
  /\ last.ret = 0
  /\ Len(FreeSeq) >= 2
  /\ last.page > FreeSeq[1]

\* what the directory maps at va, and the page_lookup that follows a call
MapsTo(va) == check_va2pa(KState, boot_pgdir, va)
LookupNow(va) == page_lookup(KState, boot_pgdir, va, NullPte).page
InsertOk == last.op = "page_insert" /\ last.ret = 0

\* C2 as claimed: after page_insert returns 0, page_lookup(pgdir, va)
\* returns pp and pp->pp_ref is one more than before the call.
C2_InsertAddsOneRef ==
  InsertOk => /\ LookupNow(last.va) = last.pp
              /\ pages[last.pp].pp_ref = last.ref + 1

\* C2, amended: after page_insert returns 0, page_lookup(pgdir, va) returns
\* pp; pp->pp_ref is one more than before the call unless va already mapped
\* pp, and then it is what it was before the call.
C2_InsertThenLookup ==
  InsertOk => /\ LookupNow(last.va) = last.pp
              /\ pages[last.pp].pp_ref =
                   last.ref + (IF last.was = last.pp THEN 0 ELSE 1)

\* page_insert has mapped at va a frame that is also mapped elsewhere
C2_Witness ==
  /\ InsertOk
  /\ last.was # last.pp
  /\ LookupNow(last.va) = last.pp
  /\ pages[last.pp].pp_ref = 2

\* Present leaf entries that map f: entries of the page tables of the
\* directory (not of the directory seen through VPT and UVPT) and
\* large-page directory entries.
LeafSlots(f) ==
  {<<i, j>> \in Index \X Index :
     LET pde == mem[boot_pgdir][i]
     IN /\ Present(pde)
        /\ PTE_PS \notin pde.fl
        /\ pde.pa # boot_pgdir
        /\ Present(mem[pde.pa][j])
        /\ mem[pde.pa][j].pa = f}
LargeSlots(f) ==
  {i \in Index : LET pde == mem[boot_pgdir][i]
                 IN Present(pde) /\ PTE_PS \in pde.fl /\ pde.pa = f}
References(f) ==
  Cardinality(LeafSlots(f)) + Cardinality(LargeSlots(f))
    + (IF IsTable(f) THEN 1 ELSE 0)

C4_ReplaceMapping ==
  (InsertOk /\ last.was \notin {NULL, last.pp})
    => /\ MapsTo(last.va) = last.pp
       /\ pages[last.was].pp_ref = last.wasref - 1
       /\ (pages[last.was].pp_ref = 0 <=> last.was \in FreeSet)
       /\ pages[last.pp].pp_ref = last.ref + 1

\* page_insert has replaced the last mapping of A, which is now free
C4_Witness ==
  /\ InsertOk
  /\ last.was \notin {NULL, last.pp}
  /\ last.was \in FreeSet
  /\ MapsTo(last.va) = last.pp

\* the addresses at which f is mapped
MappedAt(f) == {v \in UserVAs : MapsTo(v) = f}

\* C5: a frame from page_alloc that is mapped at two addresses has pp_ref 2;
\* page_remove of a mapped address takes one from the pp_ref of its frame
\* and leaves every other address as it was; from 2 it leaves 1 and the
\* frame off the free list, from 1 it leaves 0 and the frame on the list.
C5_Step ==
  /\ \A f \in CallerFrames : Cardinality(MappedAt(f)) = 2
                                => pages[f].pp_ref = 2
  /\ (last'.op = "page_remove" /\ MapsTo(last'.va) # NULL)
       => LET f == MapsTo(last'.va)
          IN /\ pages'[f].pp_ref = pages[f].pp_ref - 1
             /\ check_va2pa(KState', boot_pgdir, last'.va) = NULL
             /\ \A v \in UserVAs \ {last'.va} : MapsTo(v)' = MapsTo(v)
             /\ (pages[f].pp_ref = 2
                   => pages'[f].pp_ref = 1 /\ f \notin FreeSet')
             /\ (pages[f].pp_ref = 1
                   => pages'[f].pp_ref = 0 /\ f \in FreeSet')

C5_RemoveOneOfTwo == [][C5_Step]_vars

\* page_remove has removed one of two mappings of a frame
C5_Witness ==
  /\ last.op = "page_remove"
  /\ last.was # NULL
  /\ last.wasref = 2
  /\ pages[last.was].pp_ref = 1
  /\ MappedAt(last.was) # {}
  /\ last.was \notin FreeSet

\* C6: page_insert of pp at a va that maps pp returns 0 and leaves pp_ref as
\* it was, and after no statement of the call is pp's count 0 or pp on the
\* free list.
C6_Step ==
  (last'.op = "page_insert" /\ MapsTo(last'.va) = last'.pp)
    => LET pp == last'.pp
           r == page_insert(KState, boot_pgdir, pp, last'.va, last'.perm)
       IN /\ last'.ret = 0
          /\ r.ret = 0
          /\ pages' = r.s.pages /\ page_free_list' = r.s.page_free_list
          /\ mem' = r.s.mem
          /\ pages'[pp].pp_ref = pages[pp].pp_ref
          /\ \A i \in 1 .. Len(r.steps) :
               /\ r.steps[i].pages[pp].pp_ref > 0
               /\ pp \notin FreeSetOf(r.steps[i])

C6_ReinsertKeepsFrame == [][C6_Step]_vars

\* page_insert has mapped pp again where it was, with other permissions
C6_Witness ==
  /\ InsertOk
  /\ last.was = last.pp
  /\ last.perm = {PTE_U}
  /\ pages[last.pp].pp_ref = 1
  /\ last.invlpg = <<last.va>>

\* va has no present mapping: directory entry absent or leaf not present
NotMapped(va) ==
  LET pde == mem[boot_pgdir][PDX(va)]
  IN \/ ~Present(pde)
     \/ PTE_PS \notin pde.fl /\ ~Present(mem[pde.pa][PTX(va)])

\* C7: page_remove of an address with no present mapping changes no entry,
\* no struct Page and not the free list, and does not call tlb_invalidate.
C7_Step ==
  (last'.op = "page_remove" /\ NotMapped(last'.va))
    => KernelUnchanged /\ last'.invlpg = <<>>

C7_RemoveUnmappedNoop == [][C7_Step]_vars

\* page_remove was called for an unmapped address while others are mapped
C7_Witness ==
  /\ last.op = "page_remove"
  /\ last.was = NULL
  /\ NotMapped(last.va)
  /\ \E v \in UserVAs : MapsTo(v) # NULL

\* C10: page_insert returns -E_NO_MEM exactly when the directory entry for
\* va is absent and the free list is empty, and then it has changed no
\* pp_ref, no entry and not the free list.
C10_Step ==
  last'.op = "page_insert"
    => /\ last'.ret \in {0, -E_NO_MEM}
       /\ last'.ret = -E_NO_MEM
            <=> (~Present(mem[boot_pgdir][PDX(last'.va)])
                   /\ page_free_list = NULL)
       /\ last'.ret = -E_NO_MEM => KernelUnchanged

C10_InsertNoMem == [][C10_Step]_vars

\* page_insert has failed for want of a frame for the page table
C10_Witness ==
  /\ last.op = "page_insert"
  /\ last.ret = -E_NO_MEM
  /\ page_free_list = NULL
  /\ ~Present(mem[boot_pgdir][PDX(last.va)])

\* C11: page_free of a frame whose pp_ref is not 0 panics and leaves the
\* free list and every struct Page as they were; page_free of a frame whose
\* pp_ref is 0 puts it at the head of the free list and does not panic.
C11_Step ==
  last'.op = "page_free"
    => IF pages[last'.pp].pp_ref # 0
       THEN /\ panicked'
            /\ FreeSeq' = FreeSeq
            /\ pages' = pages /\ page_free_list' = page_free_list
       ELSE /\ ~panicked'
            /\ FreeSeq' = <<last'.pp>> \o FreeSeq

C11_FreePanicsOnReferenced == [][C11_Step]_vars

\* page_free has panicked on a frame that was still referenced
C11_Witness ==
  /\ last.op = "page_free"
  /\ last.ref = 1
  /\ panicked
  /\ last.pp \notin FreeSet
  /\ FreeSet # {}

\* C12: page_remove of a mapped address first clears the leaf entry, then
\* invalidates the translation of va, and only then takes one from the
\* frame's pp_ref, freeing it at 0; whenever the frame is on the free list
\* the entry for va is clear and va has been invalidated.
C12_Step ==
  (last'.op = "page_remove" /\ MapsTo(last'.va) # NULL)
    => LET va == last'.va
           f == MapsTo(va)
           r == page_remove(KState, boot_pgdir, va)
       IN /\ pages' = r.s.pages /\ page_free_list' = r.s.page_free_list
          /\ mem' = r.s.mem
          /\ Len(r.steps) = 3
          /\ check_va2pa(r.steps[1], boot_pgdir, va) = NULL
          /\ r.steps[1].invlpg = <<>>
          /\ r.steps[1].pages = pages
          /\ r.steps[2].invlpg = <<va>>
          /\ r.steps[2].mem = r.steps[1].mem
          /\ r.steps[2].pages = pages
          /\ r.steps[2].page_free_list = page_free_list
          /\ r.steps[3].pages[f].pp_ref = pages[f].pp_ref - 1
          /\ r.steps[3].mem = r.steps[1].mem
          /\ (pages[f].pp_ref = 1 => f \in FreeSetOf(r.steps[3]))
          /\ \A i \in 1 .. 3 :
               f \in FreeSetOf(r.steps[i])
                 => /\ check_va2pa(r.steps[i], boot_pgdir, va) = NULL
                    /\ r.steps[i].invlpg = <<va>>

C12_RemoveOrder == [][C12_Step]_vars

\* page_remove has removed the last mapping of a frame, which is now free
C12_Witness ==
  /\ last.op = "page_remove"
  /\ last.was # NULL
  /\ last.wasref = 1
  /\ last.was \in FreeSet
  /\ last.invlpg = <<last.va>>
  /\ MapsTo(last.va) = NULL

\* C13: pgdir_walk with create 1 on an absent directory entry takes the head
\* of the free list and no other frame, zero-fills it, gives it pp_ref 1,
\* installs it in the directory entry with PTE_P, PTE_W and PTE_U and
\* returns the entry PTX(va) of it; with an empty free list it returns NULL
\* and changes no entry, no pp_ref and not the free list.
C13_Step ==
  (/\ last'.op = "pgdir_walk"
   /\ last'.create = 1
   /\ ~Present(mem[boot_pgdir][PDX(last'.va)]))
    => IF page_free_list = NULL
       THEN last'.pte = NullPte /\ KernelUnchanged
       ELSE LET t == page_free_list
                va == last'.va
            IN /\ FreeSeq' = Tail(FreeSeq)
               /\ mem'[t] = ZeroPage
               /\ pages'[t].pp_ref = 1
               /\ \A f \in Frames \ {t} : pages'[f].pp_ref = pages[f].pp_ref
               /\ mem'[boot_pgdir][PDX(va)] =
                    [pa |-> t, fl |-> {PTE_P, PTE_W, PTE_U}]
               /\ \A i \in Index \ {PDX(va)} :
                    mem'[boot_pgdir][i] = mem[boot_pgdir][i]
               /\ last'.pte = [fr |-> t, ix |-> PTX(va)]
               /\ ~panicked'

C13_WalkCreatesTable == [][C13_Step]_vars

\* pgdir_walk could not get a frame for the page table of an absent entry
C13_Witness ==
  /\ last.op = "pgdir_walk"
  /\ last.create = 1
  /\ last.pte = NullPte
  /\ page_free_list = NULL
  /\ ~Present(mem[boot_pgdir][PDX(last.va)])
  /\ ~panicked

\* C14 as claimed: pgdir_walk with create 2 at a va that is not aligned to a
\* large page panics, whatever the directory entry of va holds.
C14_Step ==
  (last'.op = "pgdir_walk" /\ last'.create = 2 /\ JPGOFF(last'.va) # 0)
    => panicked'

C14_UnalignedLargeWalkPanics == [][C14_Step]_vars

\* pgdir_walk with create 2 at an unaligned va has returned an entry, the
\* directory entry of va being present
C14_Witness ==
  /\ last.op = "pgdir_walk"
  /\ last.create = 2
  /\ JPGOFF(last.va) # 0
  /\ ~panicked
  /\ last.pte # NullPte
  /\ Present(mem[boot_pgdir][PDX(last.va)])

\* C15 as claimed: pgdir_walk with create 2 at a va aligned to a large page
\* leaves the directory entry of va present with PTE_PS, returns that
\* directory slot and takes no frame from the free list.
C15_Step ==
  (last'.op = "pgdir_walk" /\ last'.create = 2 /\ JPGOFF(last'.va) = 0)
    => /\ Present(mem'[boot_pgdir][PDX(last'.va)])
       /\ PTE_PS \in mem'[boot_pgdir][PDX(last'.va)].fl
       /\ last'.pte = [fr |-> boot_pgdir, ix |-> PDX(last'.va)]
       /\ FreeSeq' = FreeSeq
       /\ pages' = pages

C15_LargeWalkReturnsDirectorySlot == [][C15_Step]_vars

\* pgdir_walk with create 2 at an aligned va has returned an entry of the
\* page table that a caller installed there before
C15_Witness ==
  /\ last.op = "pgdir_walk"
  /\ last.create = 2
  /\ last.va = PTSIZE
  /\ PTE_PS \notin mem[boot_pgdir][PDX(last.va)].fl
  /\ last.pte = [fr |-> mem[boot_pgdir][PDX(last.va)].pa, ix |-> PTX(last.va)]
  /\ last.pte.fr # boot_pgdir

\* The page table lets the range [va, va + len) be accessed with perm: every
\* page of it lies below ULIM and has a present entry whose flags include
\* perm.
PageAllows(a, perm) ==
  /\ a < ULIM
  /\ LET pte == pgdir_walk(KState, boot_pgdir, a, 0).pte
     IN /\ pte # NullPte
        /\ Present(Deref(KState, pte))
        /\ perm \subseteq Deref(KState, pte).fl
Touched(va, len) == va .. (va + len - 1)
UserMayAccess(va, len, perm) ==
  \A a \in Touched(va, len) : PageAllows(a, perm)
FirstBad(va, len, perm) ==
  CHOOSE a \in Touched(va, len) :
    /\ ~PageAllows(a, perm)
    /\ \A b \in Touched(va, len) : b < a => PageAllows(b, perm)

\* C16 as claimed: user_mem_check returns -E_FAULT when some page of the
\* range lies at or above ULIM or lacks a requested permission, and then
\* user_mem_check_addr is the first such address; it returns 0 only when
\* every page passes.
C16_CheckFaults ==
  last.op = "user_mem_check"
    => IF UserMayAccess(last.va, last.len, last.perm)
       THEN last.ret = 0
       ELSE /\ last.ret = -E_FAULT
            /\ user_mem_check_addr = FirstBad(last.va, last.len, last.perm)

\* user_mem_check has returned 0 for a range that lies above ULIM
C16_Witness ==
  /\ last.op = "user_mem_check"
  /\ last.va >= ULIM
  /\ last.ret = 0
  /\ ~UserMayAccess(last.va, last.len, last.perm)

\* C17 as claimed: user_mem_assert calls env_destroy exactly when the range
\* may not be accessed with perm and PTE_U, and itself changes no struct
\* Page, no entry and not the free list.
C17_Step ==
  last'.op = "user_mem_assert"
    => /\ env_destroyed'
            <=> ~UserMayAccess(last'.va, last'.len, last'.perm \cup {PTE_U})
       /\ KernelUnchanged

C17_AssertDestroys == [][C17_Step]_vars

\* user_mem_assert has returned, the env alive, for a range of kernel memory
C17_Witness ==
  /\ last.op = "user_mem_assert"
  /\ last.va = KERNBASE
  /\ ~env_destroyed
  /\ ~UserMayAccess(last.va, last.len, last.perm \cup {PTE_U})

\* how often f occurs on the free list
TimesFree(f) == Cardinality({i \in 1 .. Len(FreeSeq) : FreeSeq[i] = f})

\* page_init has just run: the kernel has served no call yet
AfterPageInit == last.op = "none"

\* C18 as claimed: after page_init frame 0, the frames of the IO hole and
\* the frames from EXTPHYSMEM to the end of the memory boot_alloc gave out
\* have pp_ref 1 and are not on the free list, every other frame has pp_ref
\* 0 and is on the list once; and page_alloc never returns one of the
\* reserved frames afterwards.
C18_Step ==
  /\ AfterPageInit
       => \A f \in Frames :
            IF \/ f = 0
               \/ f \in PPN_IOPHYSMEM .. (PPN_EXTPHYSMEM - 1)
               \/ f \in PPN_EXTPHYSMEM .. (PPN_after_kernel - 1)
            THEN pages[f].pp_ref = 1 /\ TimesFree(f) = 0
            ELSE pages[f].pp_ref = 0 /\ TimesFree(f) = 1
  /\ (last'.op = "page_alloc" /\ last'.ret = 0)
       => last'.page \notin Reserved

C18_ReservedNeverAllocated == [][C18_Step]_vars

\* page_alloc has returned frame 0, which page_remove of the kernel's
\* mapping of physical memory had put on the free list
C18_Witness ==
  /\ last.op = "page_alloc"
  /\ last.ret = 0
  /\ last.page = 0
  /\ ~Present(mem[boot_pgdir][PDX_KERNBASE])

\* C19 as claimed: boot_alloc(n, align) panics when the cursor rounded up to
\* align, plus n, lies more than maxpa above KERNBASE; otherwise it returns
\* the rounded cursor and leaves the cursor at that address plus n, so the
\* cursor does not decrease and nothing past maxpa is returned.
C19_Step ==
  last'.op = "boot_alloc"
    => LET c == IF boot_freemem = 0 THEN end ELSE boot_freemem
           n == last'.len
           v == ((c + last'.align - 1) \div last'.align) * last'.align
       IN IF v + n - KERNBASE_B > maxpa
          THEN panicked'
          ELSE /\ ~panicked'
               /\ last'.ret = v
               /\ boot_freemem' = v + n
               /\ boot_freemem' >= c

C19_BootAllocMonotonic == [][C19_Step]_vars

\* boot_alloc has returned, for a size near the top of the word, with the
\* cursor below the address it returned
C19_Witness ==
  /\ last.op = "boot_alloc"
  /\ ~panicked
  /\ last.len = WordMod - PGSIZE_B
  /\ boot_freemem < last.ret

\* C20: once the boot page directory is constructed, the directory slots
\* pgdir[PDX(VPT)] and pgdir[PDX(UVPT)] are present and point to the
\* directory's own frame, and stay so after every sequence of pgdir_walk,
\* page_insert and page_remove calls on that directory, whatever the
\* virtual addresses passed.
C20_SelfMapKept ==
  /\ SelfMapped(PDX_VPT)
  /\ SelfMapped(PDX_UVPT)

\* page_remove has been called on the address the self-map gives to the
\* directory's own VPT slot, and that slot is no longer present
C20_Witness ==
  /\ last.op = "page_remove"
  /\ last.va = VPT + PDX_VPT * PGSIZE
  /\ ~panicked
  /\ ~Present(mem[boot_pgdir][PDX_VPT])

\* C25: page_insert needs a free frame exactly when the directory entry of
\* va is absent.  With the free list empty it succeeds, taking no frame,
\* when the entry is present, and fails, changing nothing, when the entry
\* is absent; with a free frame and the entry absent it takes exactly one
\* frame, the head of the list, which becomes the page table of va with
\* pp_ref 1.
C25_Step ==
  last'.op = "page_insert"
    => LET pde == mem[boot_pgdir][PDX(last'.va)]
           t == page_free_list
       IN /\ (last'.ret = 0) <=> (Present(pde) \/ t # NULL)
          /\ last'.ret # 0 => (last'.ret = -E_NO_MEM /\ KernelUnchanged)
          /\ Present(pde)
               => /\ FreeSet \subseteq FreeSet'
                  /\ mem'[boot_pgdir][PDX(last'.va)] = pde
          /\ (~Present(pde) /\ t # NULL)
               => /\ FreeSet' = FreeSet \ {t}
                  /\ mem'[boot_pgdir][PDX(last'.va)] =
                       [pa |-> t, fl |-> {PTE_P, PTE_W, PTE_U}]
                  /\ pages'[t].pp_ref = 1

C25_InsertNeedsFrameIffNoTable == [][C25_Step]_vars

\* page_insert has succeeded at an address that was already mapped, with
\* no frame on the free list before or after the call
C25_Witness ==
  /\ last.op = "page_insert"
  /\ last.ret = 0
  /\ last.was # NULL
  /\ last.was = last.pp
  /\ page_free_list = NULL
  /\ ~panicked

\* the entry pgdir_walk(pgdir, va, 0) finds for va, all zero when it finds
\* none
LeafNow(va) ==
  LET Walked(w) == IF w = NullPte THEN ZeroEntry ELSE Deref(KState, w)
  IN Walked(pgdir_walk(KState, boot_pgdir, va, 0).pte)

\* C26: after page_insert(pgdir, pp, va, perm) returns 0 the leaf entry of
\* va holds the physical address of pp with flags exactly perm | PTE_P,
\* whatever entry va had before; re-inserting the same frame at the same
\* address with other permissions replaces the old permission bits.
C26_InsertSetsLeaf ==
  InsertOk => LeafNow(last.va) = [pa |-> last.pp, fl |-> last.perm \cup {PTE_P}]

\* page_insert has returned 0 for an address inside the large page at
\* KERNBASE and the entry of that address does not map pp
C26_Witness ==
  /\ InsertOk
  /\ last.va = KERNBASE
  /\ ~panicked
  /\ LeafNow(last.va).pa # last.pp

\* the directory slots that hold a page table
TableSlots ==
  {i \in Index : /\ Present(mem[boot_pgdir][i])
                 /\ PTE_PS \notin mem[boot_pgdir][i].fl
                 /\ mem[boot_pgdir][i].pa # boot_pgdir}

\* C27: page_remove never releases a page table.  Every directory entry
\* that holds a page table is the same after page_remove as before it, also
\* when the call clears the last present entry of the table, and the table
\* frame still has pp_ref 1 and is not on the free list.
C27_Step ==
  last'.op = "page_remove"
    => \A i \in TableSlots :
         LET t == mem[boot_pgdir][i].pa
         IN /\ mem'[boot_pgdir][i] = mem[boot_pgdir][i]
            /\ pages[t].pp_ref = 1
            /\ pages'[t].pp_ref = 1
            /\ t \notin FreeSet'

C27_RemoveKeepsTable == [][C27_Step]_vars

\* page_remove has removed the last mapping under a directory entry: the
\* page table of va has no present entry left and is still installed
C27_Witness ==
  /\ last.op = "page_remove"
  /\ last.was # NULL
  /\ PDX(last.va) \in TableSlots
  /\ mem[mem[boot_pgdir][PDX(last.va)].pa] = ZeroPage
  /\ pages[mem[boot_pgdir][PDX(last.va)].pa].pp_ref = 1
  /\ mem[boot_pgdir][PDX(last.va)].pa \notin FreeSet

\* the addresses of the large page va lies in
RegionOf(va) == {v \in 0 .. (NPTENTRIES * NPTENTRIES - 1) : PDX(v) = PDX(va)}

\* C28: a large-page mapping is removed as one unit.  page_remove at any va
\* inside a region mapped by a large-page directory entry clears that
\* directory entry and nothing else, so every address of the region is
\* unmapped, calls invlpg once, for va, and takes one from the pp_ref of
\* the first frame of the region and of no other frame.
C28_Step ==
  (/\ last'.op = "page_remove"
   /\ Present(mem[boot_pgdir][PDX(last'.va)])
   /\ PTE_PS \in mem[boot_pgdir][PDX(last'.va)].fl)
    => LET va == last'.va
           first == mem[boot_pgdir][PDX(va)].pa
       IN /\ mem' = [mem EXCEPT ![boot_pgdir][PDX(va)] = ZeroEntry]
          /\ \A v \in RegionOf(va) :
               check_va2pa(KState', boot_pgdir, v) = NULL
          /\ last'.invlpg = <<va>>
          /\ pages'[first].pp_ref = pages[first].pp_ref - 1
          /\ \A f \in Frames \ {first} :
               pages'[f].pp_ref = pages[f].pp_ref
          /\ ~panicked'

C28_LargeRemovedAsUnit == [][C28_Step]_vars

\* page_remove was called at an address inside, not at the start of, the
\* large page at KERNBASE, whose directory entry is now clear
C28_Witness ==
  /\ last.op = "page_remove"
  /\ last.va = KERNBASE + PGSIZE
  /\ last.was = 0
  /\ last.invlpg = <<KERNBASE + PGSIZE>>
  /\ mem[boot_pgdir][PDX_KERNBASE] = ZeroEntry

\* C29: for a va whose directory entry is present and not a large page,
\* pgdir_walk returns entry PTX(va) of the table frame pgdir[PDX(va)] names;
\* it changes no entry, no pp_ref and not the free list, so that a second
\* call with the same va and any create returns the same entry.  With
\* create 0 and an absent directory entry it returns NULL and changes
\* nothing.
C29_Step ==
  last'.op = "pgdir_walk"
    => LET va == last'.va
           pde == mem[boot_pgdir][PDX(va)]
       IN /\ (Present(pde) /\ PTE_PS \notin pde.fl)
               => /\ last'.pte = [fr |-> pde.pa, ix |-> PTX(va)]
                  /\ KernelUnchanged
                  /\ \A c \in {0, 1, 2} :
                       LET Again(w) == w.pte = last'.pte /\ w.s = KState'
                       IN Again(pgdir_walk(KState', boot_pgdir, va, c))
          /\ (~Present(pde) /\ last'.create = 0)
               => last'.pte = NullPte /\ KernelUnchanged

C29_WalkFindsEntry == [][C29_Step]_vars

\* pgdir_walk with create 2 has returned the second entry of a page table
\* that an earlier call installed
C29_Witness ==
  /\ last.op = "pgdir_walk"
  /\ last.create = 2
  /\ last.va = PGSIZE
  /\ PDX(PGSIZE) \in TableSlots
  /\ last.pte = [fr |-> mem[boot_pgdir][PDX(PGSIZE)].pa, ix |-> PTX(PGSIZE)]
  /\ ~panicked

Returned == {t \in Threads : pc[t] = "ret"}

\* C23: however the statements of the threads that call parlib_run_once on
\* one parlib_once_t interleave, init_fn is called exactly once: never a
\* second time, and it has been called once any caller has returned.
C23_InitFnOnce ==
  /\ init_fn.calls <= 1
  /\ Returned # {} => init_fn.calls = 1

\* init_fn is running in one thread while a second thread spins and a third
\* is about to do the fetch-and-or
C23_Witness ==
  /\ init_fn = [calls |-> 1, done |-> 0]
  /\ \E t \in Threads : pc[t] = "in_init"
  /\ \E t \in Threads : pc[t] = "spin"
  /\ \E t \in Threads : pc[t] = "race"

\* C24: no caller of parlib_run_once returns before the one call of init_fn
\* has returned: whenever a thread has returned, ran_once is TRUE and
\* init_fn has finished, also for the threads that lost the race and spun.
C24_Step ==
  \A t \in Threads :
    (pc'[t] = "ret" /\ pc[t] # "ret")
      => /\ once_ctl'.ran_once
         /\ init_fn.done = 1
         /\ init_fn'.done = 1 /\ init_fn'.calls = 1

C24_ReturnAfterInitFn == [][C24_Step]_vars

\* the thread that ran init_fn and a thread that saw ran_once set have
\* returned, and a thread that lost the race is still in the spin loop
C24_Witness ==
  /\ Cardinality(Returned) = NThreads - 1
  /\ \E t \in Threads : pc[t] = "spin"
  /\ once_ctl.ran_once
  /\ init_fn = [calls |-> 1, done |-> 1]

\* what the two-level walk finds for va in the directory of frame pgdir: the
\* entry that maps va and whether it is a directory or a page-table entry
LeafB(m, pgdir, va) ==
  LET pde == m[pgdir][PDX_B(va)]
  IN IF ~Present(pde) THEN [level |-> "none", e |-> ZeroEntry]
     ELSE IF PTE_PS \in pde.fl THEN [level |-> "directory", e |-> pde]
     ELSE IF pde.pa \notin DOMAIN m THEN [level |-> "none", e |-> ZeroEntry]
     ELSE [level |-> "table", e |-> m[pde.pa][PTX_B(va)]]

\* the offsets i in [0, size) that boot_map_segment steps through
StrideOffsets(size, perm) ==
  {i \in 0 .. (size - 1) :
     i % (IF PTE_PS \in perm THEN JPGSIZE ELSE PGSIZE_B) = 0}

\* C30 as claimed: boot_map_segment(pgdir, la, size, pa, perm) with
\* page-aligned la and pa leaves, for every stride offset i in [0, size),
\* la + i translating to pa + i with flags perm | PTE_P, through a
\* directory entry exactly when perm has PTE_PS; a large-page request with
\* la or pa not aligned to the large-page size panics; a normal request
\* with a misaligned la warns and still maps.
C30_Step ==
  last'.op = "boot_map_segment"
    => LET la == last'.va
           size == last'.len
           pa == last'.pp
           perm == last'.perm
           large == PTE_PS \in perm
       IN /\ (large /\ (JPGOFF_B(la) # 0 \/ JPGOFF_B(pa) # 0)) => panicked'
          /\ (~large /\ PGOFF(la) # 0)
               => /\ ~panicked'
                  /\ "la not page aligned" \in vm'.warned
                  /\ LeafB(mem', vm.pgdir, la).level # "none"
          /\ (/\ PGOFF(la) = 0 /\ PGOFF(pa) = 0
              /\ large => (JPGOFF_B(la) = 0 /\ JPGOFF_B(pa) = 0))
               => /\ ~panicked'
                  /\ \A i \in StrideOffsets(size, perm) :
                       LeafB(mem', vm.pgdir, (la + i) % WordMod) =
                         [level |-> IF large THEN "directory" ELSE "table",
                          e |-> [pa |-> PPN((pa + i) % WordMod),
                                 fl |-> perm \cup {PTE_P}]]

C30_MapSegmentMaps == [][C30_Step]_vars

\* boot_map_segment has mapped normal pages at a page-aligned la whose
\* directory slot held a large page, and la is not mapped through a page
\* table
C30_Witness ==
  /\ last.op = "boot_map_segment"
  /\ PTE_PS \notin last.perm
  /\ PGOFF(last.va) = 0 /\ PGOFF(last.pp) = 0
  /\ ~panicked
  /\ LeafB(mem, vm.pgdir, last.va).e # [pa |-> PPN(last.pp),
                                        fl |-> last.perm \cup {PTE_P}]

\* the directory i386_vm_init builds is complete: every mapping call has
\* returned
Built ==
  vm.at \in {"check", "low", "unlow", "done", "inited"} /\ ~panicked

\* the directory translates va to pa as the hardware walk does: through a
\* page-table entry, or through a large-page entry plus the offset in the
\* large page
Translates(va, pa) ==
  LET l == LeafB(mem, vm.pgdir, va)
  IN /\ l.level # "none"
     /\ Present(l.e)
     /\ pa = IF l.level = "directory"
             THEN l.e.pa * PGSIZE_B + JPGOFF_B(va)
             ELSE l.e.pa * PGSIZE_B

\* C21: after i386_vm_init has built the boot directory, with or without
\* large pages and for every memory size detected, UPAGES + i translates to
\* PADDR(pages) + i for every page offset i of the page-aligned pages
\* array, UENVS + i to PADDR(envs) + i for every page offset i of the envs
\* array, KERNBASE + i to i for every page offset i below maxpa (every
\* mapped stride among them), and KSTACKTOP - KSTKSIZE + i to
\* PADDR(bootstack) + i for every page offset i below KSTKSIZE.
C21_BootTranslations ==
  Built =>
    /\ \A i \in Steps(ROUNDUP(PageArrayBytes(vm.npage), PGSIZE_B), PGSIZE_B) :
         Translates(UPAGES + i, PADDR(vm.pages) + i)
    /\ \A i \in Steps(ROUNDUP(EnvArrayBytes, PGSIZE_B), PGSIZE_B) :
         Translates(UENVS + i, PADDR(vm.envs) + i)
    /\ \A i \in Steps(maxpa, PGSIZE_B) : Translates(KERNBASE_B + i, i)
    /\ \A i \in Steps(KSTKSIZE, PGSIZE_B) :
         Translates(KSTACKTOP - KSTKSIZE + i, PADDR(bootstack) + i)

\* i386_vm_init has returned without large pages, with physical memory that
\* takes more than one page table to map and a pages array of several pages
C21_Witness ==
  /\ vm.at = "done"
  /\ ~panicked
  /\ ~vm.pse
  /\ maxpa > PTSIZE_B
  /\ ROUNDUP(PageArrayBytes(vm.npage), PGSIZE_B) > PGSIZE_B

\* what the two levels allow at va: a mapping is there, it goes through a
\* page table with no PTE_PS in either entry, both entries have PTE_U, both
\* have PTE_W
AccessAt(va) ==
  LET pde == mem[vm.pgdir][PDX_B(va)]
      l == LeafB(mem, vm.pgdir, va)
  IN [present |-> l.level # "none" /\ Present(l.e),
      normal |-> l.level = "table" /\ PTE_PS \notin l.e.fl,
      user |-> PTE_U \in pde.fl \cap l.e.fl,
      write |-> PTE_W \in pde.fl \cap l.e.fl]

PagesFrom(lo, hi) == {lo + k : k \in Steps(hi - lo, PGSIZE_B)}

\* C22: in the boot directory built by i386_vm_init, every present
\* normal-page mapping in [UENVS, ULIM) other than the UVPT + (VPT >> 10)
\* slot is user-accessible and not writable, every present mapping in
\* [ULIM, KERNBASE + maxpa) other than the VPT + (UVPT >> 10) slot is
\* writable and not user-accessible, and the two excepted slots are neither
\* user-accessible nor writable.
C22_BootPermissions ==
  Built =>
    /\ \A va \in PagesFrom(UENVS, ULIM_B) \ {UVPT_B + SelfOff(VPT_B)} :
         (AccessAt(va).present /\ AccessAt(va).normal)
           => AccessAt(va).user /\ ~AccessAt(va).write
    /\ \A va \in PagesFrom(ULIM_B, KERNBASE_B + maxpa)
                   \ {VPT_B + SelfOff(UVPT_B)} :
         AccessAt(va).present
           => AccessAt(va).write /\ ~AccessAt(va).user
    /\ \A va \in {UVPT_B + SelfOff(VPT_B), VPT_B + SelfOff(UVPT_B)} :
         ~AccessAt(va).user /\ ~AccessAt(va).write

\* i386_vm_init has returned with large pages: the window on pages is
\* mapped for the user, and the two cross self-map slots are present
C22_Witness ==
  /\ vm.at = "done"
  /\ ~panicked
  /\ vm.pse
  /\ AccessAt(UPAGES).present /\ AccessAt(UPAGES).user
  /\ AccessAt(UVPT_B + SelfOff(VPT_B)).present
  /\ AccessAt(VPT_B + SelfOff(UVPT_B)).present

\* an entry of the directory or of one of its page tables names frame f
Referenced(f) ==
  LeafSlots(f) # {} \/ LargeSlots(f) # {} \/ IsTable(f)

\* C31 as claimed: page_alloc never returns a frame that is, at that
\* moment, mapped by a present leaf entry or referenced as the child table
\* of a present directory entry, after any sequence of page_alloc,
\* page_insert, page_remove and pgdir_walk calls, at addresses inside the
\* self-referential window or a large-page region included.
C31_AllocNotMapped ==
  (last.op = "page_alloc" /\ last.ret = 0) => ~Referenced(last.page)

\* page_alloc has returned the frame of the page directory while the
\* directory's UVPT slot still names that frame as its page table
C31_Witness ==
  /\ last.op = "page_alloc"
  /\ last.ret = 0
  /\ last.page = boot_pgdir
  /\ SelfMapped(PDX_UVPT)
  /\ ~panicked

\* C32 as claimed: no frame is on the free list more than once (the list is
\* a duplicate-free, acyclic chain) after any sequence of page_alloc,
\* page_free and page_decref calls in which page_free is called only on
\* frames whose pp_ref is 0, a frame that is already on the list included.
C32_FreeListNoDuplicates ==
  /\ Len(FreeSeq) = Cardinality(FreeSet)
  /\ Len(FreeSeq) <= NPAGE

\* page_free has returned from a call on a frame that was on the free list,
\* and following le_next from the head comes back to a frame already seen
C32_Witness ==
  /\ last.op = "page_free"
  /\ ~panicked
  /\ last.ref = 0
  /\ Len(FreeSeq) > Cardinality(FreeSet)

\* C33 as claimed: a frame's reference count never goes below 0 and never
\* wraps: page_decref on a frame whose count is 0 leaves no negative or
\* wrapped count, and no page_insert, page_remove or page_decref call
\* makes any frame's count jump upwards by more than the one reference a
\* call can add.
C33_Step ==
  last'.op \in {"page_decref", "page_insert", "page_remove"}
    => \A f \in Frames : pages'[f].pp_ref <= pages[f].pp_ref + 1

C33_RefNeverWraps == [][C33_Step]_vars

\* page_decref has returned from a call on a frame whose count was 0, and
\* the count is the largest value the field holds
C33_Witness ==
  /\ last.op = "page_decref"
  /\ last.ref = 0
  /\ ~panicked
  /\ pages[last.pp].pp_ref = RefMod - 1

\* C34: page_init reads and writes frame descriptors only at indices in
\* [0, npage), for every memory configuration detected: with no extended
\* memory (npage no larger than the frame number of IOPHYSMEM) page_init
\* touches none, and when the boot allocations end at the last frame it
\* stops at that frame.
C34_PageInitInBounds == vm.touched \subseteq 0 .. (vm.npage - 1)

\* page_init has run where boot_alloc's cursor stood at the end of the last
\* frame, and has written the descriptor of that frame
C34_Witness ==
  /\ vm.at = "inited"
  /\ ~panicked
  /\ PPN(PADDR(ROUNDUP(boot_freemem, PGSIZE_B))) = vm.npage
  /\ (vm.npage - 1) \in vm.touched

\* C35: under fair scheduling, with an init_fn that returns and does not
\* call parlib_run_once on the same parlib_once_t, every thread that calls
\* parlib_run_once returns in the end; ran_once, once TRUE, stays TRUE, and
\* a call that tests ran_once when it is TRUE (after a winner's store or
\* after parlib_set_ran_once) returns without a call of init_fn.
C35_Step ==
  /\ once_ctl.ran_once => once_ctl'.ran_once
  /\ \A t \in Threads :
       (pc[t] = "test" /\ once_ctl.ran_once /\ pc'[t] # "test")
         => (pc'[t] = "ret" /\ init_fn' = init_fn)

C35_EveryCallReturns ==
  /\ \A t \in Threads : (pc[t] = "test") ~> (pc[t] = "ret")
  /\ [][C35_Step]_vars

\* two threads spin while the winner is inside init_fn
C35_Witness ==
  /\ \E t \in Threads : pc[t] = "in_init"
  /\ Cardinality({t \in Threads : pc[t] = "spin"}) = 2
  /\ ~once_ctl.ran_once
  /\ init_fn = [calls |-> 1, done |-> 0]

====
